---- MODULE Spec2Model ----
(***************************************************************************)
(* A model of rcloneb: the download Queue (package queue), the             *)
(* TransferManager and CopyFile (package rclone) and the part of the       *)
(* bubbletea Model (package main) that starts and supervises a batch.      *)
(*                                                                         *)
(* The specifications share the variables:                                 *)
(*   SpecQueue     callers of the Queue's methods;                         *)
(*   SpecTM        callers of the TransferManager's methods, one call at   *)
(*                 a time;                                                 *)
(*   SpecTMLocks   concurrent callers of the TransferManager's methods,    *)
(*                 one step per lock operation;                            *)
(*   SpecBatch     the start action of the queue view, the runTransfers    *)
(*                 goroutine, the rclone subprocess and the quit keys;     *)
(*   SpecBatchFair SpecBatch with its goroutines scheduled;                *)
(*   SpecUI        the program from its start: the browser's key handlers  *)
(*                 and load messages, up to the start of a batch;          *)
(*   SpecParse     parseRcloneOutput on a stream of characters read in     *)
(*                 chunks of any size;                                     *)
(*   SpecTMView    the transfer view reading the entries of GetAll while   *)
(*                 the goroutine's callbacks update them;                  *)
(*   SpecTMCalls   concurrent callers of all eight methods of the          *)
(*                 TransferManager;                                        *)
(*   SpecQueueRefs callers of the Queue's accessors, who keep and write    *)
(*                 through what they were returned;                        *)
(*   SpecScreens   the screens of the program, from the remote list to     *)
(*                 the transfer view and back, with the tick of the view;  *)
(*   SpecSelect    the selection keys of the browser on a loaded listing.  *)
(***************************************************************************)
EXTENDS Integers, Sequences, FiniteSets, TLC

VARIABLES
    \* package queue
    items,          \* Queue.items
    qcap,           \* the capacity of the array behind Queue.items
    ret,            \* what an accessor of the Queue returned to its caller
    qcall,          \* the last Queue method called, with its arguments
    qprev,          \* Queue.items before that call
    qadded,         \* the (remote, path) pairs Add was called with so far
    \* package rclone: one TransferManager
    transfers,      \* TransferManager.transfers: ID -> *Transfer (an index of heap)
    heap,           \* the Transfer objects allocated so far
    regLock,        \* TransferManager.mu: its writer (0: none) and its readers
    entryLock,      \* Transfer.mu of each object: its holder (0: none)
    pc,             \* where each caller of the TransferManager stands
    call,           \* the call each caller is in: method, arguments, locals
    panicked,       \* a caller dereferenced a nil *Transfer
    mcall,          \* the last TransferManager method called, one call at a time
    mprev,          \* the TransferManager before that call
    \* package main: one batch
    model,          \* the Model's state, transferMgr and transferCancel
    session,        \* the program: running, quitting (tea.Quit), exited
    ctxDone,        \* transferCtx is cancelled
    orch,           \* the runTransfers goroutine: where it stands, its locals
    cmd,            \* the rclone subprocess, its stderr pipe, the parser
    hist,           \* the batch as registered; what each CopyFile returned;
                    \* the item that was InProgress when the batch was cancelled
    timer,          \* the tea.Tick of tickCmd: none, armed, or fired with its
                    \* tickMsg waiting for Update
    \* package main: the browser
    ui,             \* the Model's remotes, path, back-stack, listing, filter,
                    \* loading flag and error
    msgs,           \* the load commands whose result message is still to come
    \* package rclone: one parseRcloneOutput
    scan            \* the stream, the bufio.Scanner over it, the lines it
                    \* produced and the UpdateProgress calls they led to

qvars == <<items, qcap, ret, qcall, qprev, qadded>>
mvars == <<transfers, heap, panicked>>
hvars == <<mcall, mprev>>
tvars == <<regLock, entryLock, pc, call>>
bvars == <<model, session, ctxDone, orch, cmd, hist, timer>>
uvars == <<ui, msgs>>
pvars == <<scan>>

\* what the callers of the Queue, and of the TransferManager, leave alone
QFrame == UNCHANGED <<mvars, hvars, tvars, bvars, uvars, pvars>>
MFrame == UNCHANGED <<qvars, tvars, bvars, uvars, pvars>>
TFrame == UNCHANGED <<qvars, hvars, bvars, uvars, pvars>>

(***************************************************************************)
(* Bounds and input domains.                                               *)
(***************************************************************************)
MaxSize == 2
MaxItems == 3
MaxLines == 2

Remotes == {"r1", "r2"}
Paths == {"a", "b"}

\* rclone.FileItem values a listing can hand to Queue.Add (ModTime is never read)
FileItems ==
    {[Name |-> p, Path |-> p, Size |-> s, IsDir |-> FALSE] :
        p \in Paths, s \in 1..MaxSize}

(***************************************************************************)
(* package queue                                                           *)
(***************************************************************************)
StatusPendingItem == "Pending"

Pair(item) == <<item.Remote, item.Path>>

\* queue.New
New == <<>>

\* the Item literal Queue.Add appends
NewItem(remote, file) ==
    [Remote |-> remote, Path |-> file.Path, Name |-> file.Name,
     Size |-> file.Size, IsDir |-> file.IsDir, Status |-> StatusPendingItem,
     Progress |-> 0, Speed |-> "", Error |-> "nil"]

\* Queue.Contains, and the loop at the head of Queue.Add
Contains(q, remote, path) ==
    \E k \in 1..Len(q) : q[k].Remote = remote /\ q[k].Path = path

\* Queue.Add without its duplicate check
QueueAddNoCheck(q, remote, file) ==
    Append(q, NewItem(remote, file))

\* Queue.Add
QueueAdd(q, remote, file) ==
    IF Contains(q, remote, file.Path)
    THEN q
    ELSE Append(q, NewItem(remote, file))

\* Queue.Remove with the upper bound off by one (index <= len): the slice
\* q.items[index+1:] of one past the end is then empty and the last item goes
QueueRemoveOffByOne(q, index) ==
    IF index >= 0 /\ index <= Len(q) /\ Len(q) > 0
    THEN IF index = Len(q)
         THEN SubSeq(q, 1, Len(q) - 1)
         ELSE SubSeq(q, 1, index) \o SubSeq(q, index + 2, Len(q))
    ELSE q

\* Queue.Remove: append(q.items[:index], q.items[index+1:]...), index from 0
QueueRemove(q, index) ==
    IF index >= 0 /\ index < Len(q)
    THEN SubSeq(q, 1, index) \o SubSeq(q, index + 2, Len(q))
    ELSE q

\* Queue.Clear
QueueClear(q) == <<>>

\* Queue.Len
QueueLen(q) == Len(q)

\* the other values of ItemStatus
StatusDownloadingItem == "Downloading"
StatusCompletedItem == "Completed"
StatusErrorItem == "Error"

\* the capacity of q.items once it holds n items: append allocates a new
\* array, of twice the capacity, when the one behind the slice is full
RECURSIVE Grow(_, _)
Grow(cap, n) ==
    IF n <= cap THEN cap ELSE Grow(IF cap = 0 THEN 1 ELSE 2 * cap, n)

\* the loops of UpdateProgress and SetStatus: the index, from 0, of the first
\* item with the path, or -1
FirstWithPath(q, path) ==
    IF \E k \in 1..Len(q) : q[k].Path = path
    THEN (CHOOSE k \in 1..Len(q) :
             /\ q[k].Path = path
             /\ \A j \in 1..(k - 1) : q[j].Path # path) - 1
    ELSE -1

\* Queue.UpdateProgress
QueueUpdateProgress(q, path, progress, speed) ==
    LET i == FirstWithPath(q, path) IN
    IF i < 0 THEN q
    ELSE [q EXCEPT ![i + 1] = [@ EXCEPT !.Progress = progress, !.Speed = speed,
                                        !.Status = StatusDownloadingItem]]

\* Queue.SetStatus
QueueSetStatus(q, path, status, err) ==
    LET i == FirstWithPath(q, path) IN
    IF i < 0 THEN q
    ELSE [q EXCEPT ![i + 1] =
             [@ EXCEPT !.Status = status, !.Error = err,
                       !.Progress = IF status = StatusCompletedItem THEN 100 ELSE @]]

\* Queue.Items: result := make([]Item, len(q.items)); copy(result, q.items)
QueueItems(q) == [kind |-> "copy", val |-> q]

\* Queue.GetNextPending: the index, from 0, of the first Pending item, or -1
\* where it returns nil
NextPending(q) ==
    IF \E k \in 1..Len(q) : q[k].Status = StatusPendingItem
    THEN (CHOOSE k \in 1..Len(q) :
             /\ q[k].Status = StatusPendingItem
             /\ \A j \in 1..(k - 1) : q[j].Status # StatusPendingItem) - 1
    ELSE -1

\* Queue.GetNextPending: &q.items[i], an address in the array behind q.items
GetNextPending(q) ==
    LET i == NextPending(q) IN
    IF i < 0 THEN [kind |-> "nil"]
    ELSE [kind |-> "ptr", live |-> TRUE, idx |-> i, val |-> q[i + 1]]

\* no accessor result is held
NoHeld == [kind |-> "none"]

\* what a held result shows once a method has left q.items as q, in the array
\* it had (same) or in a new one: a slot past the length keeps what it held
HeldAfter(h, q, same) ==
    IF h.kind # "ptr" THEN h
    ELSE LET live == h.live /\ same IN
         [h EXCEPT !.live = live,
                   !.val = IF live /\ h.idx < Len(q) THEN q[h.idx + 1] ELSE @]

(***************************************************************************)
(* package rclone: Transfer and TransferManager                            *)
(***************************************************************************)
StatusPending == "Pending"
StatusInProgress == "InProgress"
StatusCompleted == "Completed"
StatusFailed == "Failed"

\* fmt.Sprintf("transfer_%d", i)
TransferID(i) == "transfer_" \o ToString(i)

\* a nil *Transfer, an unheld lock
Nil == "nil"
None == "none"

\* time.Now(): any time that is not the zero time.Time
Now == 1

\* the callers of one TransferManager and the methods each calls
Threads == {"writer", "progress", "reader"}
Writers == {"writer"}
Progressers == {"progress"}
Readers == {"reader"}

\* the IDs callers pass, and the IDs startDownloads registers
IDs == {TransferID(0), TransferID(1)}
ItemIDs == {TransferID(i) : i \in 0..(MaxItems - 1)}

\* The heap of Transfer objects. A *Transfer is the name of its object: the ID
\* the object is registered under or, once Add has replaced it in the map, the
\* caller whose local still points to it. An object nothing points to is
\* garbage.
Slots == IDs \cup ItemIDs \cup Threads
Freed == [Status |-> "freed"]

\* the Transfer literal of TransferManager.Add without its BytesTotal
NewTransferNoTotal(id, source, destination, totalBytes) ==
    [ID |-> id, Source |-> source, Destination |-> destination,
     Status |-> StatusPending, Progress |-> 0, BytesCopied |-> 0,
     BytesTotal |-> 0, Speed |-> "", StartTime |-> 0, EndTime |-> 0,
     Error |-> "nil"]

\* the Transfer literal TransferManager.Add stores
NewTransfer(id, source, destination, totalBytes) ==
    [ID |-> id, Source |-> source, Destination |-> destination,
     Status |-> StatusPending, Progress |-> 0, BytesCopied |-> 0,
     BytesTotal |-> totalBytes, Speed |-> "", StartTime |-> 0, EndTime |-> 0,
     Error |-> "nil"]

\* NewTransferManager
NewTransferManager ==
    [transfers |-> [id \in {} |-> Nil], heap |-> [s \in Slots |-> Freed],
     panicked |-> FALSE]

\* the garbage collector: objects that nothing points to are gone
Collect(m, h, held) ==
    [s \in Slots |->
        IF s \in held \/ (\E id \in DOMAIN m : m[id] = s) THEN h[s] ELSE Freed]

\* t, exists := m.transfers[id]: a missing key yields a nil pointer and false
Lookup(m, id) == IF id \in DOMAIN m THEN m[id] ELSE Nil

\* the lookup with its "exists" result ignored
ExistsAlways(m, id) == TRUE

Exists(m, id) == id \in DOMAIN m

\* what Start writes under t.mu
StartFields(t) ==
    [t EXCEPT !.Status = StatusInProgress, !.StartTime = Now]

\* what UpdateProgress writes under t.mu, the total whatever its sign
UpdateFieldsAnyTotal(t, progress, bytesCopied, bytesTotal, speed) ==
    [t EXCEPT !.Progress = progress,
              !.BytesCopied = bytesCopied,
              !.BytesTotal = bytesTotal,
              !.Speed = speed]

\* what UpdateProgress writes under t.mu
UpdateFields(t, progress, bytesCopied, bytesTotal, speed) ==
    [t EXCEPT !.Progress = progress,
              !.BytesCopied = bytesCopied,
              !.BytesTotal = IF bytesTotal > 0 THEN bytesTotal ELSE @,
              !.Speed = speed]

\* Complete without its write of the status
CompleteFieldsNoStatus(t) ==
    [t EXCEPT !.Progress = 100, !.EndTime = Now]

\* what Complete writes under t.mu
CompleteFields(t) ==
    [t EXCEPT !.Status = StatusCompleted, !.Progress = 100, !.EndTime = Now]

\* what Fail writes under t.mu
FailFields(t, err) ==
    [t EXCEPT !.Status = StatusFailed, !.Error = err, !.EndTime = Now]

\* the object t points to; a nil t points to none
Deref(tm, t) == IF t = Nil THEN Freed ELSE tm.heap[t]

\* t.mu.Lock(); the writes that make the object new; t.mu.Unlock(): a nil t
\* panics
WriteEntryOf(tm, t, new) ==
    IF t = Nil
    THEN [tm EXCEPT !.panicked = TRUE]
    ELSE [tm EXCEPT !.heap[t] = new]

\* TransferManager.Add: m.transfers[id] = &Transfer{...}
TMAdd(tm, id, source, destination, totalBytes) ==
    [tm EXCEPT !.transfers = (id :> id) @@ @,
               !.heap[id] = NewTransfer(id, source, destination, totalBytes)]

\* TransferManager.Start
TMStart(tm, id) ==
    IF Exists(tm.transfers, id)
    THEN WriteEntryOf(tm, Lookup(tm.transfers, id),
                      StartFields(Deref(tm, Lookup(tm.transfers, id))))
    ELSE tm

\* TransferManager.UpdateProgress
TMUpdateProgress(tm, id, progress, bytesCopied, bytesTotal, speed) ==
    IF Exists(tm.transfers, id)
    THEN WriteEntryOf(tm, Lookup(tm.transfers, id),
                      UpdateFields(Deref(tm, Lookup(tm.transfers, id)),
                                   progress, bytesCopied, bytesTotal, speed))
    ELSE tm

\* TransferManager.Complete
TMComplete(tm, id) ==
    IF Exists(tm.transfers, id)
    THEN WriteEntryOf(tm, Lookup(tm.transfers, id),
                      CompleteFields(Deref(tm, Lookup(tm.transfers, id))))
    ELSE tm

\* TransferManager.Fail
TMFail(tm, id, err) ==
    IF Exists(tm.transfers, id)
    THEN WriteEntryOf(tm, Lookup(tm.transfers, id),
                      FailFields(Deref(tm, Lookup(tm.transfers, id)), err))
    ELSE tm

\* the number of registered transfers whose status is s
CountStatus(tm, s) ==
    Cardinality({id \in DOMAIN tm.transfers : tm.heap[tm.transfers[id]].Status = s})

\* TransferManager.Stats: (pending, inProgress, completed, failed)
Stats(tm) ==
    <<CountStatus(tm, StatusPending), CountStatus(tm, StatusInProgress),
      CountStatus(tm, StatusCompleted), CountStatus(tm, StatusFailed)>>

\* the manager the variables hold
Mgr == [transfers |-> transfers, heap |-> heap, panicked |-> panicked]

SetMgr(tm) ==
    /\ transfers' = tm.transfers
    /\ heap' = tm.heap
    /\ panicked' = tm.panicked

MInit ==
    /\ transfers = NewTransferManager.transfers
    /\ heap = NewTransferManager.heap
    /\ panicked = NewTransferManager.panicked
    /\ mcall = [op |-> "NewTransferManager"]
    /\ mprev = NewTransferManager

(***************************************************************************)
(* Callers of one TransferManager, one call at a time.                     *)
(***************************************************************************)
\* arguments the callers pass
Totals == {0, 1}
ProgressArgs ==
    {[progress |-> 50, bytesCopied |-> 1, bytesTotal |-> 0, speed |-> "1 MiB/s"],
     [progress |-> 75, bytesCopied |-> 2, bytesTotal |-> 2, speed |-> ""]}
Errors == {"exit status 1"}

Called(c, tm) ==
    /\ ~panicked
    /\ mcall' = c
    /\ mprev' = Mgr
    /\ SetMgr(tm)
    /\ MFrame

CallAdd ==
    \E id \in IDs, total \in Totals :
        Called([op |-> "Add", id |-> id, totalBytes |-> total],
               TMAdd(Mgr, id, "r1:a", ".", total))

CallStart ==
    \E id \in IDs :
        Called([op |-> "Start", id |-> id], TMStart(Mgr, id))

CallUpdateProgress ==
    \E id \in IDs, a \in ProgressArgs :
        Called([op |-> "UpdateProgress", id |-> id] @@ a,
               TMUpdateProgress(Mgr, id, a.progress, a.bytesCopied,
                                a.bytesTotal, a.speed))

CallComplete ==
    \E id \in IDs :
        Called([op |-> "Complete", id |-> id], TMComplete(Mgr, id))

CallFail ==
    \E id \in IDs, err \in Errors :
        Called([op |-> "Fail", id |-> id, err |-> err], TMFail(Mgr, id, err))

CallStats ==
    Called([op |-> "Stats", ret |-> Stats(Mgr)], Mgr)

MNext ==
    \/ CallAdd
    \/ CallStart
    \/ CallUpdateProgress
    \/ CallComplete
    \/ CallFail
    \/ CallStats

(***************************************************************************)
(* Concurrent callers of one TransferManager. A caller takes one step per  *)
(* lock operation; what it does between two lock operations is one step.   *)
(***************************************************************************)
\* the one progress update the concurrent caller passes
ProgressLine ==
    [progress |-> 50, bytesCopied |-> 1, bytesTotal |-> 2, speed |-> ""]

Idle == [op |-> "none"]

\* the callers other than t whose local t points to object s, and the objects
\* the locals of the callers other than t point to
Holders(t, s) ==
    {u \in Threads \ {t} : "t" \in DOMAIN call[u] /\ call[u].t = s}

Held(t) ==
    {s \in Slots : Holders(t, s) # {}}

\* a Lock that waits for nobody
CanLockAlways == TRUE

\* sync.RWMutex: Lock waits for no writer and no reader, RLock for no writer
CanLock == regLock.w = None /\ regLock.r = {}

CanRLock == regLock.w = None

TInit ==
    /\ regLock = [w |-> None, r |-> {}]
    /\ entryLock = [s \in Slots |-> None]
    /\ pc = [t \in Threads |-> "idle"]
    /\ call = [t \in Threads |-> Idle]

\* Add: m.mu.Lock()
AddLock(t) ==
    /\ TFrame
    /\ t \in Writers
    /\ pc[t] = "idle"
    /\ ~panicked
    /\ CanLock
    /\ \E id \in IDs :
          call' = [call EXCEPT ![t] = [op |-> "Add", id |-> id]]
    /\ regLock' = [regLock EXCEPT !.w = t]
    /\ pc' = [pc EXCEPT ![t] = "addLocked"]
    /\ UNCHANGED <<transfers, heap, entryLock, panicked>>

\* Add: the map store, then the deferred m.mu.Unlock(). The object the map
\* held under the ID lives on only through the locals that point to it.
AddStore(t) ==
    /\ TFrame
    /\ pc[t] = "addLocked"
    /\ LET id == call[t].id
           tm == TMAdd(Mgr, id, "r1:a", ".", 1)
           hs == Holders(t, id)
           old == CHOOSE u \in hs : TRUE
       IN /\ transfers' = tm.transfers
          /\ IF hs = {}
             THEN /\ heap' = tm.heap
                  /\ entryLock' = [entryLock EXCEPT ![id] = None]
                  /\ call' = [call EXCEPT ![t] = Idle]
             ELSE /\ heap' = [tm.heap EXCEPT ![old] = heap[id]]
                  /\ entryLock' = [entryLock EXCEPT ![old] = entryLock[id],
                                                    ![id] = None]
                  /\ call' = [u \in Threads |->
                                 IF u = t THEN Idle
                                 ELSE IF u \in hs THEN [call[u] EXCEPT !.t = old]
                                 ELSE call[u]]
    /\ regLock' = [regLock EXCEPT !.w = None]
    /\ pc' = [pc EXCEPT ![t] = "idle"]
    /\ UNCHANGED panicked

\* Start, Complete, Fail: m.mu.Lock()
WriteLock(t) ==
    /\ TFrame
    /\ t \in Writers
    /\ pc[t] = "idle"
    /\ ~panicked
    /\ CanLock
    /\ \E op \in {"Start", "Complete", "Fail"}, id \in IDs :
          call' = [call EXCEPT ![t] = [op |-> op, id |-> id]]
    /\ regLock' = [regLock EXCEPT !.w = t]
    /\ pc' = [pc EXCEPT ![t] = "wlocked"]
    /\ UNCHANGED <<transfers, heap, entryLock, panicked>>

\* Start, Complete, Fail: the lookup; t.mu.Lock() if the ID exists, else return
WriteLookup(t) ==
    /\ TFrame
    /\ pc[t] = "wlocked"
    /\ LET ref == Lookup(transfers, call[t].id) IN
       IF Exists(transfers, call[t].id)
       THEN IF ref = Nil
            THEN /\ panicked' = TRUE
                 /\ UNCHANGED <<entryLock, regLock, pc, call>>
            ELSE /\ entryLock[ref] = None
                 /\ entryLock' = [entryLock EXCEPT ![ref] = t]
                 /\ call' = [call EXCEPT ![t] = @ @@ [t |-> ref]]
                 /\ pc' = [pc EXCEPT ![t] = "wentry"]
                 /\ UNCHANGED <<regLock, panicked>>
       ELSE /\ regLock' = [regLock EXCEPT !.w = None]
            /\ pc' = [pc EXCEPT ![t] = "idle"]
            /\ call' = [call EXCEPT ![t] = Idle]
            /\ UNCHANGED <<entryLock, panicked>>
    /\ UNCHANGED <<transfers, heap>>

\* Start, Complete, Fail: the writes, t.mu.Unlock(), the deferred m.mu.Unlock()
WriteEntry(t) ==
    /\ TFrame
    /\ pc[t] = "wentry"
    /\ LET ref == call[t].t IN
          /\ heap' = [heap EXCEPT ![ref] =
                CASE call[t].op = "Start" -> StartFields(@)
                  [] call[t].op = "Complete" -> CompleteFields(@)
                  [] call[t].op = "Fail" -> FailFields(@, "exit status 1")]
          /\ entryLock' = [entryLock EXCEPT ![ref] = None]
    /\ regLock' = [regLock EXCEPT !.w = None]
    /\ pc' = [pc EXCEPT ![t] = "idle"]
    /\ call' = [call EXCEPT ![t] = Idle]
    /\ UNCHANGED <<transfers, panicked>>

\* UpdateProgress: m.mu.RLock()
UpdateRLock(t) ==
    /\ TFrame
    /\ t \in Progressers
    /\ pc[t] = "idle"
    /\ ~panicked
    /\ CanRLock
    /\ \E id \in IDs :
          call' = [call EXCEPT ![t] =
                      [op |-> "UpdateProgress", id |-> id] @@ ProgressLine]
    /\ regLock' = [regLock EXCEPT !.r = @ \cup {t}]
    /\ pc' = [pc EXCEPT ![t] = "rlocked"]
    /\ UNCHANGED <<transfers, heap, entryLock, panicked>>

\* UpdateProgress: the lookup and m.mu.RUnlock(); return if the ID is missing
UpdateLookup(t) ==
    /\ TFrame
    /\ pc[t] = "rlocked"
    /\ regLock' = [regLock EXCEPT !.r = @ \ {t}]
    /\ IF Exists(transfers, call[t].id)
       THEN /\ call' = [call EXCEPT ![t] = @ @@ [t |-> Lookup(transfers, call[t].id)]]
            /\ pc' = [pc EXCEPT ![t] = "ulooked"]
       ELSE /\ pc' = [pc EXCEPT ![t] = "idle"]
            /\ call' = [call EXCEPT ![t] = Idle]
    /\ UNCHANGED <<transfers, heap, entryLock, panicked>>

\* UpdateProgress: t.mu.Lock()
UpdateEntryLock(t) ==
    /\ TFrame
    /\ pc[t] = "ulooked"
    /\ LET ref == call[t].t IN
       IF ref = Nil
       THEN /\ panicked' = TRUE
            /\ UNCHANGED <<entryLock, pc>>
       ELSE /\ entryLock[ref] = None
            /\ entryLock' = [entryLock EXCEPT ![ref] = t]
            /\ pc' = [pc EXCEPT ![t] = "uentry"]
            /\ UNCHANGED panicked
    /\ UNCHANGED <<transfers, heap, regLock, call>>

\* UpdateProgress: the writes and t.mu.Unlock(); the local t goes out of scope
UpdateEntry(t) ==
    /\ TFrame
    /\ pc[t] = "uentry"
    /\ LET ref == call[t].t
           c == call[t] IN
          /\ heap' = Collect(transfers,
                [heap EXCEPT ![ref] =
                    UpdateFields(@, c.progress, c.bytesCopied, c.bytesTotal, c.speed)],
                Held(t))
          /\ entryLock' = [entryLock EXCEPT ![ref] = None]
    /\ pc' = [pc EXCEPT ![t] = "idle"]
    /\ call' = [call EXCEPT ![t] = Idle]
    /\ UNCHANGED <<transfers, regLock, panicked>>

\* Stats: m.mu.RLock(); the range loop has the whole map still to visit
StatsRLock(t) ==
    /\ TFrame
    /\ t \in Readers
    /\ pc[t] = "idle"
    /\ ~panicked
    /\ CanRLock
    /\ call' = [call EXCEPT ![t] =
          [op |-> "Stats", todo |-> DOMAIN transfers, pending |-> 0,
           inProgress |-> 0, completed |-> 0, failed |-> 0]]
    /\ regLock' = [regLock EXCEPT !.r = @ \cup {t}]
    /\ pc' = [pc EXCEPT ![t] = "scan"]
    /\ UNCHANGED <<transfers, heap, entryLock, panicked>>

\* Stats: the loop visits an entry (in the map's order, which is any): t.mu.Lock()
StatsEntryLock(t) ==
    /\ TFrame
    /\ pc[t] = "scan"
    /\ \E id \in call[t].todo :
          LET ref == transfers[id] IN
          /\ entryLock[ref] = None
          /\ entryLock' = [entryLock EXCEPT ![ref] = t]
          /\ call' = [call EXCEPT ![t] = @ @@ [cur |-> id, t |-> ref]]
    /\ pc' = [pc EXCEPT ![t] = "scanEntry"]
    /\ UNCHANGED <<transfers, heap, regLock, panicked>>

\* a Stats that counts the entry and forgets its t.mu.Unlock()
StatsEntryKeepsLock(t) ==
    /\ TFrame
    /\ pc[t] = "scanEntry"
    /\ call' = [call EXCEPT ![t] =
          [op |-> "Stats", todo |-> call[t].todo \ {call[t].cur},
           pending |-> 0, inProgress |-> 0, completed |-> 0, failed |-> 0]]
    /\ pc' = [pc EXCEPT ![t] = "scan"]
    /\ UNCHANGED <<transfers, heap, regLock, entryLock, panicked>>

\* Stats: the switch on t.Status, then t.mu.Unlock()
StatsEntry(t) ==
    /\ TFrame
    /\ pc[t] = "scanEntry"
    /\ LET c == call[t]
           st == heap[c.t].Status IN
          /\ call' = [call EXCEPT ![t] =
                [op |-> "Stats", todo |-> c.todo \ {c.cur},
                 pending |-> c.pending + (IF st = StatusPending THEN 1 ELSE 0),
                 inProgress |-> c.inProgress + (IF st = StatusInProgress THEN 1 ELSE 0),
                 completed |-> c.completed + (IF st = StatusCompleted THEN 1 ELSE 0),
                 failed |-> c.failed + (IF st = StatusFailed THEN 1 ELSE 0)]]
          /\ entryLock' = [entryLock EXCEPT ![c.t] = None]
    /\ pc' = [pc EXCEPT ![t] = "scan"]
    /\ UNCHANGED <<transfers, heap, regLock, panicked>>

\* Stats: the loop is over; the deferred m.mu.RUnlock() and the return
StatsReturn(t) ==
    /\ TFrame
    /\ pc[t] = "scan"
    /\ call[t].todo = {}
    /\ regLock' = [regLock EXCEPT !.r = @ \ {t}]
    /\ pc' = [pc EXCEPT ![t] = "idle"]
    /\ call' = [call EXCEPT ![t] = Idle]
    /\ UNCHANGED <<transfers, heap, entryLock, panicked>>

\* GetAll, called by transferView: m.mu.RLock()
GetAllRLock(t) ==
    /\ TFrame
    /\ t \in Readers
    /\ pc[t] = "idle"
    /\ ~panicked
    /\ CanRLock
    /\ call' = [call EXCEPT ![t] = [op |-> "GetAll"]]
    /\ regLock' = [regLock EXCEPT !.r = @ \cup {t}]
    /\ pc' = [pc EXCEPT ![t] = "getall"]
    /\ UNCHANGED <<transfers, heap, entryLock, panicked>>

\* GetAll: the pointers are copied, the deferred m.mu.RUnlock(), the return;
\* transferView is at one of the entries of the result, any of them
GetAllReturn(t) ==
    /\ TFrame
    /\ pc[t] = "getall"
    /\ regLock' = [regLock EXCEPT !.r = @ \ {t}]
    /\ IF DOMAIN transfers = {}
       THEN /\ pc' = [pc EXCEPT ![t] = "idle"]
            /\ call' = [call EXCEPT ![t] = Idle]
       ELSE /\ \E id \in DOMAIN transfers :
                  call' = [call EXCEPT ![t] = [op |-> "View", t |-> transfers[id]]]
            /\ pc' = [pc EXCEPT ![t] = "viewEntry"]
    /\ UNCHANGED <<transfers, heap, entryLock, panicked>>

\* transferView, renderTransfer: the reads of t.Status, t.Progress,
\* t.BytesCopied, t.BytesTotal, t.Speed, t.StartTime, t.EndTime and t.Error,
\* with no lock taken; the pointer goes out of scope
ViewEntry(t) ==
    /\ TFrame
    /\ pc[t] = "viewEntry"
    /\ heap' = Collect(transfers, heap, Held(t))
    /\ pc' = [pc EXCEPT ![t] = "idle"]
    /\ call' = [call EXCEPT ![t] = Idle]
    /\ UNCHANGED <<transfers, regLock, entryLock, panicked>>

\* Get: m.mu.RLock()
GetRLock(t) ==
    /\ TFrame
    /\ t \in Readers
    /\ pc[t] = "idle"
    /\ ~panicked
    /\ CanRLock
    /\ \E id \in IDs :
          call' = [call EXCEPT ![t] = [op |-> "Get", id |-> id]]
    /\ regLock' = [regLock EXCEPT !.r = @ \cup {t}]
    /\ pc' = [pc EXCEPT ![t] = "get"]
    /\ UNCHANGED <<transfers, heap, entryLock, panicked>>

\* Get: the lookup, the deferred m.mu.RUnlock(), the return of the pointer
\* (nil for an ID the map does not hold), which the caller drops
GetReturn(t) ==
    /\ TFrame
    /\ pc[t] = "get"
    /\ regLock' = [regLock EXCEPT !.r = @ \ {t}]
    /\ pc' = [pc EXCEPT ![t] = "idle"]
    /\ call' = [call EXCEPT ![t] = Idle]
    /\ UNCHANGED <<transfers, heap, entryLock, panicked>>

\* one step of caller t in any of the eight methods of the manager
CallerStep(t) ==
    \/ AddLock(t)
    \/ AddStore(t)
    \/ WriteLock(t)
    \/ WriteLookup(t)
    \/ WriteEntry(t)
    \/ UpdateRLock(t)
    \/ UpdateLookup(t)
    \/ UpdateEntryLock(t)
    \/ UpdateEntry(t)
    \/ StatsRLock(t)
    \/ StatsEntryLock(t)
    \/ StatsEntry(t)
    \/ StatsReturn(t)
    \/ GetAllRLock(t)
    \/ GetAllReturn(t)
    \/ ViewEntry(t)
    \/ GetRLock(t)
    \/ GetReturn(t)

\* the calls that name a transfer name the first one, the one every caller
\* contends for; Add registers any of the IDs
Contended(t) ==
    call'[t].op \in {"Start", "Complete", "Fail", "UpdateProgress", "Get"}
        => call'[t].id = TransferID(0)

CNext == \E t \in Threads : CallerStep(t) /\ Contended(t)

(***************************************************************************)
(* package main: the start action of the queue view, runTransfers, and     *)
(* rclone.CopyFile with its subprocess and its parser goroutine.           *)
(***************************************************************************)
StateRemoteSelect == "RemoteSelect"
StateFileBrowser == "FileBrowser"
StateQueueView == "QueueView"
StateTransferView == "TransferView"

\* NewModel, as far as a batch reads it
NewModel ==
    [state |-> StateRemoteSelect, transferMgr |-> Nil, transferCancel |-> Nil]

\* the queue after the file browser queued the first n of these files
Queued ==
    <<[remote |-> "r1", file |-> [Name |-> "a", Path |-> "a", Size |-> 1, IsDir |-> FALSE]],
      [remote |-> "r1", file |-> [Name |-> "b", Path |-> "b", Size |-> 2, IsDir |-> FALSE]],
      [remote |-> "r2", file |-> [Name |-> "a", Path |-> "a", Size |-> 1, IsDir |-> FALSE]],
      [remote |-> "r2", file |-> [Name |-> "b", Path |-> "b", Size |-> 2, IsDir |-> FALSE]]>>

RECURSIVE QueueOf(_)
QueueOf(n) ==
    IF n = 0 THEN New
    ELSE QueueAdd(QueueOf(n - 1), Queued[n].remote, Queued[n].file)

\* the lines rclone writes to stderr, as parseRcloneOutput decodes them: a
\* "Transferred:" line with its percentage and sizes, or a line of another kind
Lines ==
    {[match |-> TRUE, progress |-> 75, bytesCopied |-> 2, bytesTotal |-> 2],
     [match |-> FALSE, progress |-> 0, bytesCopied |-> 0, bytesTotal |-> 0]}

\* no goroutine, no subprocess
NoOrch == [pc |-> "none", i |-> 0, items |-> <<>>, err |-> "nil"]
NoCmd == [proc |-> "none", pipe |-> <<>>, sent |-> 0, parser |-> "none"]

\* startDownloads: the loop that registers every queue item
RECURSIVE AddAll(_, _, _, _)
AddAll(tm, its, cwd, i) ==
    IF i >= Len(its) THEN tm
    ELSE AddAll(TMAdd(tm, TransferID(i),
                      its[i + 1].Remote \o ":" \o its[i + 1].Path, cwd,
                      its[i + 1].Size),
                its, cwd, i + 1)

\* updateTransferView with allDone taken as true
AllDoneAlways(tm) == TRUE

\* updateTransferView: allDone
AllDone(tm) == Stats(tm)[1] = 0 /\ Stats(tm)[2] = 0

\* runTransfers without its cancellation check
CancelledNever(done) == FALSE

\* runTransfers: select { case <-ctx.Done(): return; default: }
Cancelled(done) == done

\* a StderrPipe failure that marks the transfer Failed
PipeFailureFails(tm, id) == TMFail(tm, id, "pipe error")

\* CopyFile: StderrPipe failed, "return fmt.Errorf(...)"
PipeFailure(tm, id) == tm

\* CopyFile: what cmd.Wait returns for a subprocess that is over. A subprocess
\* that exits with status 0 after the context was cancelled yields nil or the
\* context's error, as the Go release has it.
WaitErrors(proc, done) ==
    CASE proc = "exit0" -> IF done THEN {"nil", "context canceled"} ELSE {"nil"}
      [] proc = "exit1" -> {"exit status 1"}
      [] proc = "killed" -> {"signal: killed"}

\* CopyFile's last lines without the call of manager.Complete
FinishNoComplete(tm, id, err) ==
    IF err # "nil" THEN TMFail(tm, id, err) ELSE tm

\* CopyFile: "if err != nil { manager.Fail } else { manager.Complete }"
Finish(tm, id, err) ==
    IF err # "nil" THEN TMFail(tm, id, err) ELSE TMComplete(tm, id)

\* the transfer runTransfers is at
CurID == TransferID(orch.i)

\* the index of the batch item whose transfer is InProgress, -1 if there is none
InProgressIndex ==
    IF \E k \in 0..(Len(hist.batch) - 1) :
          heap[TransferID(k)].Status = StatusInProgress
    THEN CHOOSE k \in 0..(Len(hist.batch) - 1) :
          heap[TransferID(k)].Status = StatusInProgress
    ELSE -1

BInit ==
    /\ model = [NewModel EXCEPT !.state = StateQueueView]
    /\ session = "running"
    /\ ctxDone = FALSE
    /\ orch = NoOrch
    /\ cmd = NoCmd
    /\ hist = [batch |-> <<>>, cancelK |-> -1, copyErr |-> <<>>]
    /\ timer = "none"

BFrame == UNCHANGED <<ret, qcall, qprev, qadded, hvars, tvars, pvars>>

\* what the batch leaves alone of the browser
BFrameU == UNCHANGED uvars

\* updateQueueView, the start key: startDownloads and the TransferView
KeyStart ==
    /\ BFrame
    /\ BFrameU
    /\ session = "running"
    /\ ui.err = Nil
    /\ model.state = StateQueueView
    /\ QueueLen(items) > 0
    /\ model' = [model EXCEPT !.state = StateTransferView,
                              !.transferMgr = "mgr",
                              !.transferCancel = "cancel"]
    /\ ctxDone' = FALSE
    /\ SetMgr(AddAll(NewTransferManager, items, ".", 0))
    /\ orch' = [NoOrch EXCEPT !.pc = "spawned"]
    /\ hist' = [batch |-> items, cancelK |-> -1, copyErr |-> <<>>]
    /\ timer' = "armed"
    /\ UNCHANGED <<items, qcap, session, cmd>>

\* Update, the global quit key without its call of m.transferCancel
QuitCancelsNever(cancel) == FALSE

\* Update, the global quit key: if m.transferCancel != nil
QuitCancels(cancel) == cancel # Nil

\* Update, the global quit key: cancel the transfers, tea.Quit. The key may
\* repeat before the program has quit; a context is cancelled once.
KeyQuit ==
    /\ BFrame
    /\ BFrameU
    /\ session \in {"running", "quitting"}
    /\ session' = "quitting"
    /\ IF QuitCancels(model.transferCancel)
       THEN /\ ctxDone' = TRUE
            /\ hist' = IF ctxDone THEN hist
                       ELSE [hist EXCEPT !.cancelK = InProgressIndex]
       ELSE UNCHANGED <<ctxDone, hist>>
    /\ UNCHANGED <<items, qcap, timer, mvars, model, orch, cmd>>

\* updateTransferView, enter once all is done: back to the file browser
KeyEnterDone ==
    /\ BFrame
    /\ BFrameU
    /\ session = "running"
    /\ ui.err = Nil
    /\ model.state = StateTransferView
    /\ model.transferMgr # Nil
    /\ AllDone(Mgr)
    /\ items' = QueueClear(items)
    /\ qcap' = 0
    /\ model' = [model EXCEPT !.transferMgr = Nil, !.state = StateFileBrowser]
    /\ UNCHANGED <<mvars, session, ctxDone, orch, cmd, hist, timer>>

\* updateTransferView, "q" once all is done: tea.Quit
KeyQDone ==
    /\ BFrame
    /\ BFrameU
    /\ session = "running"
    /\ ui.err = Nil
    /\ model.state = StateTransferView
    /\ model.transferMgr # Nil
    /\ AllDone(Mgr)
    /\ session' = "quitting"
    /\ UNCHANGED <<items, qcap, timer, mvars, model, ctxDone, orch, cmd, hist>>

\* the program returns from main: its goroutines are gone
ProcessExit ==
    /\ BFrame
    /\ BFrameU
    /\ session = "quitting"
    /\ session' = "exited"
    /\ UNCHANGED <<items, qcap, timer, mvars, model, ctxDone, orch, cmd, hist>>

\* runTransfers: items := m.queue.Items()
RunTransfersItems ==
    /\ BFrame
    /\ BFrameU
    /\ session # "exited"
    /\ orch.pc = "spawned"
    /\ orch' = [orch EXCEPT !.pc = "loop", !.i = 0, !.items = items]
    /\ UNCHANGED <<items, qcap, timer, mvars, model, session, ctxDone, cmd, hist>>

\* runTransfers: the range loop's test and the cancellation check
RunTransfersCheck ==
    /\ BFrame
    /\ BFrameU
    /\ session # "exited"
    /\ orch.pc = "loop"
    /\ orch' = [orch EXCEPT !.pc =
          IF orch.i >= Len(orch.items) \/ Cancelled(ctxDone)
          THEN "done" ELSE "pipe"]
    /\ UNCHANGED <<items, qcap, timer, mvars, model, session, ctxDone, cmd, hist>>

\* CopyFile: exec.CommandContext and cmd.StderrPipe, which may fail
CopyStderrPipe ==
    /\ BFrame
    /\ BFrameU
    /\ session # "exited"
    /\ orch.pc = "pipe"
    /\ \E ok \in BOOLEAN :
          IF ok
          THEN /\ orch' = [orch EXCEPT !.pc = "start"]
               /\ UNCHANGED <<mvars, hist>>
          ELSE /\ SetMgr(PipeFailure(Mgr, CurID))
               /\ orch' = [orch EXCEPT !.pc = "loop", !.i = @ + 1]
               /\ hist' = [hist EXCEPT !.copyErr = Append(@, "pipe error")]
    /\ UNCHANGED <<items, qcap, timer, model, session, ctxDone, cmd>>

\* CopyFile: manager.Start(transferID)
CopyManagerStart ==
    /\ BFrame
    /\ BFrameU
    /\ session # "exited"
    /\ orch.pc = "start"
    /\ SetMgr(TMStart(Mgr, CurID))
    /\ orch' = [orch EXCEPT !.pc = "cmdStart"]
    /\ UNCHANGED <<items, qcap, timer, model, session, ctxDone, cmd, hist>>

\* CopyFile: cmd.Start, which fails if the context is done or rclone cannot
\* be spawned; then the parser goroutine
CopyCmdStart ==
    /\ BFrame
    /\ BFrameU
    /\ session # "exited"
    /\ orch.pc = "cmdStart"
    /\ \/ /\ ctxDone
          /\ orch' = [orch EXCEPT !.pc = "startFailed", !.err = "context canceled"]
          /\ UNCHANGED cmd
       \/ /\ ~ctxDone
          /\ orch' = [orch EXCEPT !.pc = "startFailed", !.err = "exec: not found"]
          /\ UNCHANGED cmd
       \/ /\ ~ctxDone
          /\ orch' = [orch EXCEPT !.pc = "wait"]
          /\ cmd' = [NoCmd EXCEPT !.proc = "running", !.parser = "running"]
    /\ UNCHANGED <<items, qcap, timer, mvars, model, session, ctxDone, hist>>

\* CopyFile: manager.Fail(transferID, err) and the return, cmd.Start having failed
CopyStartFailed ==
    /\ BFrame
    /\ BFrameU
    /\ session # "exited"
    /\ orch.pc = "startFailed"
    /\ SetMgr(TMFail(Mgr, CurID, orch.err))
    /\ orch' = [orch EXCEPT !.pc = "loop", !.i = @ + 1, !.err = "nil"]
    /\ hist' = [hist EXCEPT !.copyErr = Append(@, orch.err)]
    /\ UNCHANGED <<items, qcap, timer, model, session, ctxDone, cmd>>

\* rclone writes a line to its stderr
ProcOutput ==
    /\ BFrame
    /\ BFrameU
    /\ session # "exited"
    /\ cmd.proc = "running"
    /\ cmd.sent < MaxLines
    /\ \E line \in Lines :
          cmd' = [cmd EXCEPT !.pipe = Append(@, line), !.sent = @ + 1]
    /\ UNCHANGED <<items, qcap, timer, mvars, model, session, ctxDone, orch, hist>>

\* rclone exits, with status 0 or not
ProcExit ==
    /\ BFrame
    /\ BFrameU
    /\ session # "exited"
    /\ cmd.proc = "running"
    /\ \E code \in {"exit0", "exit1"} : cmd' = [cmd EXCEPT !.proc = code]
    /\ UNCHANGED <<items, qcap, timer, mvars, model, session, ctxDone, orch, hist>>

\* exec.CommandContext: the context is done, the subprocess is killed
ProcKill ==
    /\ BFrame
    /\ BFrameU
    /\ session # "exited"
    /\ cmd.proc = "running"
    /\ ctxDone
    /\ cmd' = [cmd EXCEPT !.proc = "killed"]
    /\ UNCHANGED <<items, qcap, timer, mvars, model, session, ctxDone, orch, hist>>

\* parseRcloneOutput: a line is scanned; a progress line updates the manager
ParserLine ==
    /\ BFrame
    /\ BFrameU
    /\ session # "exited"
    /\ cmd.parser = "running"
    /\ cmd.pipe # <<>>
    /\ LET line == Head(cmd.pipe) IN
          IF line.match
          THEN SetMgr(TMUpdateProgress(Mgr, CurID, line.progress,
                                       line.bytesCopied, line.bytesTotal, ""))
          ELSE UNCHANGED mvars
    /\ cmd' = [cmd EXCEPT !.pipe = Tail(@)]
    /\ UNCHANGED <<items, qcap, timer, model, session, ctxDone, orch, hist>>

\* parseRcloneOutput: the scanner ends, at the end of the stream or, what is
\* left unread being lost, once cmd.Wait has closed the pipe; close(done)
ParserEnd ==
    /\ BFrame
    /\ BFrameU
    /\ session # "exited"
    /\ cmd.parser = "running"
    /\ \/ cmd.proc # "running" /\ cmd.pipe = <<>>
       \/ orch.pc = "join"
    /\ cmd' = [cmd EXCEPT !.parser = "done", !.pipe = <<>>]
    /\ UNCHANGED <<items, qcap, timer, mvars, model, session, ctxDone, orch, hist>>

\* a CopyFile that stamps the terminal status when cmd.Wait returns, before
\* its <-done
CopyWaitStamps ==
    /\ BFrame
    /\ BFrameU
    /\ session # "exited"
    /\ orch.pc = "wait"
    /\ cmd.proc # "running"
    /\ \E err \in WaitErrors(cmd.proc, ctxDone) :
          /\ orch' = [orch EXCEPT !.pc = "join", !.err = err]
          /\ SetMgr(Finish(Mgr, CurID, err))
    /\ UNCHANGED <<items, qcap, timer, model, session, ctxDone, cmd, hist>>

\* CopyFile: cmd.Wait returns
CopyWait ==
    /\ BFrame
    /\ BFrameU
    /\ session # "exited"
    /\ orch.pc = "wait"
    /\ cmd.proc # "running"
    /\ \E err \in WaitErrors(cmd.proc, ctxDone) :
          orch' = [orch EXCEPT !.pc = "join", !.err = err]
    /\ UNCHANGED <<items, qcap, timer, mvars, model, session, ctxDone, cmd, hist>>

\* CopyFile: <-done, then manager.Fail or manager.Complete, and the return
CopyJoin ==
    /\ BFrame
    /\ BFrameU
    /\ session # "exited"
    /\ orch.pc = "join"
    /\ cmd.parser = "done"
    /\ SetMgr(Finish(Mgr, CurID, orch.err))
    /\ orch' = [orch EXCEPT !.pc = "loop", !.i = @ + 1, !.err = "nil"]
    /\ cmd' = NoCmd
    /\ hist' = [hist EXCEPT !.copyErr = Append(@, orch.err)]
    /\ UNCHANGED <<items, qcap, timer, model, session, ctxDone>>

\* the steps of the runTransfers goroutine, of the parser goroutine
OrchNext ==
    \/ RunTransfersItems
    \/ RunTransfersCheck
    \/ CopyStderrPipe
    \/ CopyManagerStart
    \/ CopyCmdStart
    \/ CopyStartFailed
    \/ CopyWait
    \/ CopyJoin

ParserNext == ParserLine \/ ParserEnd

(***************************************************************************)
(* package main: the browser. Update and its per-screen key handlers, the  *)
(* load commands and their result messages.                                *)
(***************************************************************************)
MaxDepth == 2
MaxLoads == 2

\* what "rclone listremotes" and "rclone lsjson" answer when they succeed
ListRemotes == <<"r1">>

Entries(path) ==
    CASE path = "" -> <<[Name |-> "d", Size |-> 0, IsDir |-> TRUE],
                       [Name |-> "a", Size |-> 1, IsDir |-> FALSE]>>
      [] path = "d" -> <<[Name |-> "d", Size |-> 0, IsDir |-> TRUE]>>
      [] OTHER -> <<>>

\* rclone.ListFiles: the entries with their full paths
ListFiles(remote, path) ==
    [i \in 1..Len(Entries(path)) |->
        [Name |-> Entries(path)[i].Name,
         Path |-> IF path = "" THEN Entries(path)[i].Name
                  ELSE path \o "/" \o Entries(path)[i].Name,
         Size |-> Entries(path)[i].Size,
         IsDir |-> Entries(path)[i].IsDir]]

\* BrowserItem{FileItem: f}, and the FileItem embedded in a BrowserItem
BrowserItem(f) ==
    [Name |-> f.Name, Path |-> f.Path, Size |-> f.Size, IsDir |-> f.IsDir,
     Selected |-> FALSE]

FileItemOf(b) ==
    [Name |-> b.Name, Path |-> b.Path, Size |-> b.Size, IsDir |-> b.IsDir]

\* the texts the filter input can hold
FilterTexts == {"", "A"}

\* containsIgnoreCase, for names and filter texts of one character
Lower(c) == CASE c = "A" -> "a" [] c = "D" -> "d" [] OTHER -> c

ContainsIgnoreCase(s, substr) == substr = "" \/ Lower(s) = Lower(substr)

\* Model.filteredFiles
FilteredFiles(u) ==
    IF u.filterText = "" THEN u.files
    ELSE SelectSeq(u.files, LAMBDA f : ContainsIgnoreCase(f.Name, u.filterText))

\* the first index of fs whose Path is path, 0 if there is none
IndexOfPath(fs, path) ==
    IF \E i \in 1..Len(fs) : fs[i].Path = path
    THEN CHOOSE i \in 1..Len(fs) :
            fs[i].Path = path /\ \A j \in 1..(i - 1) : fs[j].Path # path
    ELSE 0

\* Model.toggleSelection
ToggleSelection(u) ==
    LET fs == FilteredFiles(u)
        k == IF u.fileIndex >= 0 /\ u.fileIndex < Len(fs)
             THEN IndexOfPath(u.files, fs[u.fileIndex + 1].Path) ELSE 0
    IN IF k = 0 THEN u
       ELSE [u EXCEPT !.files[k].Selected = ~@]

\* Model.selectAll
SelectAll(u) ==
    LET fs == FilteredFiles(u)
        allSelected == \A i \in 1..Len(fs) : fs[i].Selected
        hit == {IndexOfPath(u.files, fs[i].Path) : i \in 1..Len(fs)}
    IN [u EXCEPT !.files =
            [k \in 1..Len(u.files) |->
                IF k \in hit THEN [u.files[k] EXCEPT !.Selected = ~allSelected]
                ELSE u.files[k]]]

\* Model.addSelectedToQueue: the queue after the adds, the files unselected
RECURSIVE AddSelected(_, _, _, _)
AddSelected(q, remote, fs, i) ==
    IF i > Len(fs) THEN q
    ELSE AddSelected(IF fs[i].Selected THEN QueueAdd(q, remote, FileItemOf(fs[i]))
                     ELSE q,
                     remote, fs, i + 1)

\* addSelectedToQueue without its second loop
KeepSelections(fs) == fs

\* addSelectedToQueue: the loop that clears the selections
ClearSelections(fs) == [k \in 1..Len(fs) |-> [fs[k] EXCEPT !.Selected = FALSE]]

\* Model.enterDirectory pushing the path it enters instead of the one it leaves
EnterDirectoryPushNew(u, dir) ==
    LET new == IF u.currentPath = "" THEN dir ELSE u.currentPath \o "/" \o dir
    IN [u EXCEPT !.pathStack = Append(u.pathStack, new),
                 !.currentPath = new,
                 !.fileIndex = 0,
                 !.filterText = ""]

\* Model.enterDirectory
EnterDirectory(u, dir) ==
    [u EXCEPT !.pathStack = Append(u.pathStack, u.currentPath),
              !.currentPath = IF u.currentPath = "" THEN dir
                              ELSE u.currentPath \o "/" \o dir,
              !.fileIndex = 0,
              !.filterText = ""]

\* Model.goBack, when the back-stack is not empty
GoBack(u) ==
    [u EXCEPT !.currentPath = u.pathStack[Len(u.pathStack)],
              !.pathStack = SubSeq(u.pathStack, 1, Len(u.pathStack) - 1),
              !.fileIndex = 0,
              !.filterText = ""]

\* the commands in flight: loadRemotes, and loadFiles with the remote and the
\* path it captured. Equal commands in flight are answered as one.
LoadRemotes == [type |-> "remotes", remote |-> "", path |-> ""]
LoadFiles(u) == [type |-> "files", remote |-> u.currentRemote, path |-> u.currentPath]

CanIssue(c) == Cardinality(msgs \cup {c}) <= MaxLoads

\* NewModel, as far as the browser reads it
NewBrowser ==
    [remotes |-> <<>>, selectedIndex |-> 0, currentRemote |-> "",
     currentPath |-> "", pathStack |-> <<>>, files |-> <<>>, fileIndex |-> 0,
     filterMode |-> FALSE, filterText |-> "", loading |-> FALSE, err |-> Nil,
     width |-> 0]

\* no browser activity: what the specifications of the other parts start from
UIdle ==
    /\ ui = NewBrowser
    /\ msgs = {}

\* what a key handler of the browser leaves alone
UFrame ==
    UNCHANGED <<ret, qcall, qprev, qadded, mvars, hvars, tvars, ctxDone, orch, cmd,
                hist, timer, pvars>>

\* Update: a key other than the global quit arrives and no error is shown
KeyIn(state) ==
    /\ session = "running"
    /\ ui.err = Nil
    /\ model.state = state

\* Update, remotesLoadedMsg
RemotesLoaded ==
    /\ UFrame
    /\ session = "running"
    /\ LoadRemotes \in msgs
    /\ msgs' = msgs \ {LoadRemotes}
    /\ \E ok \in BOOLEAN :
          ui' = IF ok
                THEN [ui EXCEPT !.loading = FALSE, !.remotes = ListRemotes]
                ELSE [ui EXCEPT !.loading = FALSE, !.err = "failed to list remotes"]
    /\ UNCHANGED <<items, qcap, model, session>>

\* Update, filesLoadedMsg
FilesLoaded ==
    /\ UFrame
    /\ session = "running"
    /\ \E c \in msgs :
          /\ c.type = "files"
          /\ msgs' = msgs \ {c}
          /\ \E ok \in BOOLEAN :
                ui' = IF ok
                      THEN [ui EXCEPT !.loading = FALSE,
                               !.files = [i \in 1..Len(ListFiles(c.remote, c.path)) |->
                                   BrowserItem(ListFiles(c.remote, c.path)[i])]]
                      ELSE [ui EXCEPT !.loading = FALSE, !.err = "failed to list files"]
    /\ UNCHANGED <<items, qcap, model, session>>

\* Update: any key but the global quit while an error is shown clears it
KeyDismiss ==
    /\ UFrame
    /\ session = "running"
    /\ ui.err # Nil
    /\ ui' = [ui EXCEPT !.err = Nil]
    /\ UNCHANGED <<items, qcap, model, session, msgs>>

\* updateRemoteSelect
RemoteSelectUp ==
    /\ UFrame
    /\ KeyIn(StateRemoteSelect)
    /\ ui' = IF ui.selectedIndex > 0 THEN [ui EXCEPT !.selectedIndex = @ - 1] ELSE ui
    /\ UNCHANGED <<items, qcap, model, session, msgs>>

RemoteSelectDown ==
    /\ UFrame
    /\ KeyIn(StateRemoteSelect)
    /\ ui' = IF ui.selectedIndex < Len(ui.remotes) - 1
             THEN [ui EXCEPT !.selectedIndex = @ + 1] ELSE ui
    /\ UNCHANGED <<items, qcap, model, session, msgs>>

RemoteSelectEnter ==
    /\ UFrame
    /\ KeyIn(StateRemoteSelect)
    /\ IF Len(ui.remotes) > 0
       THEN LET u == [ui EXCEPT !.currentRemote = ui.remotes[ui.selectedIndex + 1],
                                !.currentPath = "",
                                !.pathStack = <<>>,
                                !.loading = TRUE,
                                !.fileIndex = 0]
            IN /\ CanIssue(LoadFiles(u))
               /\ ui' = u
               /\ model' = [model EXCEPT !.state = StateFileBrowser]
               /\ msgs' = msgs \cup {LoadFiles(u)}
       ELSE UNCHANGED <<ui, model, msgs>>
    /\ UNCHANGED <<items, qcap, session>>

RemoteSelectQ ==
    /\ UFrame
    /\ KeyIn(StateRemoteSelect)
    /\ session' = "quitting"
    /\ UNCHANGED <<items, qcap, model, ui, msgs>>

\* updateFileBrowser, filter mode
FilterEscape ==
    /\ UFrame
    /\ KeyIn(StateFileBrowser)
    /\ ui.filterMode
    /\ ui' = [ui EXCEPT !.filterMode = FALSE, !.filterText = "", !.fileIndex = 0]
    /\ UNCHANGED <<items, qcap, model, session, msgs>>

FilterEnter ==
    /\ UFrame
    /\ KeyIn(StateFileBrowser)
    /\ ui.filterMode
    /\ ui' = [ui EXCEPT !.filterMode = FALSE, !.fileIndex = 0]
    /\ UNCHANGED <<items, qcap, model, session, msgs>>

FilterType ==
    /\ UFrame
    /\ KeyIn(StateFileBrowser)
    /\ ui.filterMode
    /\ \E text \in FilterTexts :
          ui' = [ui EXCEPT !.filterText = text, !.fileIndex = 0]
    /\ UNCHANGED <<items, qcap, model, session, msgs>>

\* updateFileBrowser, outside filter mode
Browsing == KeyIn(StateFileBrowser) /\ ~ui.filterMode

BrowserUp ==
    /\ UFrame
    /\ Browsing
    /\ ui' = IF ui.fileIndex > 0 THEN [ui EXCEPT !.fileIndex = @ - 1] ELSE ui
    /\ UNCHANGED <<items, qcap, model, session, msgs>>

BrowserDown ==
    /\ UFrame
    /\ Browsing
    /\ ui' = IF ui.fileIndex < Len(FilteredFiles(ui)) - 1
             THEN [ui EXCEPT !.fileIndex = @ + 1] ELSE ui
    /\ UNCHANGED <<items, qcap, model, session, msgs>>

BrowserEnter ==
    /\ UFrame
    /\ Browsing
    /\ LET fs == FilteredFiles(ui) IN
       IF ui.fileIndex >= 0 /\ ui.fileIndex < Len(fs)
       THEN LET f == fs[ui.fileIndex + 1] IN
            IF f.IsDir
            THEN LET u == [EnterDirectory(ui, f.Name) EXCEPT !.loading = TRUE] IN
                 /\ Len(ui.pathStack) < MaxDepth
                 /\ CanIssue(LoadFiles(u))
                 /\ ui' = u
                 /\ msgs' = msgs \cup {LoadFiles(u)}
                 /\ UNCHANGED <<items, qcap>>
            ELSE /\ items' = QueueAdd(items, ui.currentRemote, FileItemOf(f))
                 /\ qcap' = Grow(qcap, Len(items'))
                 /\ UNCHANGED <<ui, msgs>>
       ELSE UNCHANGED <<items, qcap, ui, msgs>>
    /\ UNCHANGED <<model, session>>

BrowserBack ==
    /\ UFrame
    /\ Browsing
    /\ IF Len(ui.pathStack) > 0
       THEN LET u == [GoBack(ui) EXCEPT !.loading = TRUE] IN
            /\ CanIssue(LoadFiles(u))
            /\ ui' = u
            /\ msgs' = msgs \cup {LoadFiles(u)}
            /\ UNCHANGED model
       ELSE /\ model' = [model EXCEPT !.state = StateRemoteSelect]
            /\ ui' = [ui EXCEPT !.selectedIndex = 0]
            /\ UNCHANGED msgs
    /\ UNCHANGED <<items, qcap, session>>

BrowserSelect ==
    /\ UFrame
    /\ Browsing
    /\ ui' = ToggleSelection(ui)
    /\ UNCHANGED <<items, qcap, model, session, msgs>>

BrowserSelectAll ==
    /\ UFrame
    /\ Browsing
    /\ ui' = SelectAll(ui)
    /\ UNCHANGED <<items, qcap, model, session, msgs>>

BrowserFilter ==
    /\ UFrame
    /\ Browsing
    /\ ui' = [ui EXCEPT !.filterMode = TRUE]
    /\ UNCHANGED <<items, qcap, model, session, msgs>>

BrowserEscape ==
    /\ UFrame
    /\ Browsing
    /\ ui' = IF ui.filterText # ""
             THEN [ui EXCEPT !.filterText = "", !.fileIndex = 0] ELSE ui
    /\ UNCHANGED <<items, qcap, model, session, msgs>>

BrowserRefresh ==
    /\ UFrame
    /\ Browsing
    /\ LET u == [ui EXCEPT !.loading = TRUE] IN
          /\ CanIssue(LoadFiles(u))
          /\ ui' = u
          /\ msgs' = msgs \cup {LoadFiles(u)}
    /\ UNCHANGED <<items, qcap, model, session>>

BrowserQueue ==
    /\ UFrame
    /\ Browsing
    /\ items' = AddSelected(items, ui.currentRemote, ui.files, 1)
    /\ qcap' = Grow(qcap, Len(items'))
    /\ IF QueueLen(items') > 0
       THEN /\ model' = [model EXCEPT !.state = StateQueueView]
            /\ ui' = [ui EXCEPT !.files = ClearSelections(@), !.selectedIndex = 0]
       ELSE /\ ui' = [ui EXCEPT !.files = ClearSelections(@)]
            /\ UNCHANGED model
    /\ UNCHANGED <<session, msgs>>

\* updateQueueView
QueueViewUp ==
    /\ UFrame
    /\ KeyIn(StateQueueView)
    /\ ui' = IF ui.selectedIndex > 0 THEN [ui EXCEPT !.selectedIndex = @ - 1] ELSE ui
    /\ UNCHANGED <<items, qcap, model, session, msgs>>

QueueViewDown ==
    /\ UFrame
    /\ KeyIn(StateQueueView)
    /\ ui' = IF ui.selectedIndex < QueueLen(items) - 1
             THEN [ui EXCEPT !.selectedIndex = @ + 1] ELSE ui
    /\ UNCHANGED <<items, qcap, model, session, msgs>>

\* updateQueueView, the remove key, without the step back of the index
QueueViewRemoveNoClamp ==
    /\ UFrame
    /\ KeyIn(StateQueueView)
    /\ IF QueueLen(items) > 0
       THEN /\ items' = QueueRemove(items, ui.selectedIndex)
            /\ UNCHANGED <<qcap, ui>>
       ELSE UNCHANGED <<items, qcap, ui>>
    /\ UNCHANGED <<model, session, msgs>>

QueueViewRemove ==
    /\ UFrame
    /\ KeyIn(StateQueueView)
    /\ IF QueueLen(items) > 0
       THEN /\ items' = QueueRemove(items, ui.selectedIndex)
            /\ UNCHANGED qcap
            /\ ui' = IF ui.selectedIndex >= QueueLen(items') /\ ui.selectedIndex > 0
                     THEN [ui EXCEPT !.selectedIndex = @ - 1] ELSE ui
       ELSE UNCHANGED <<items, qcap, ui>>
    /\ UNCHANGED <<model, session, msgs>>

QueueViewEscape ==
    /\ UFrame
    /\ KeyIn(StateQueueView)
    /\ model' = [model EXCEPT !.state = StateFileBrowser]
    /\ ui' = [ui EXCEPT !.selectedIndex = 0]
    /\ UNCHANGED <<items, qcap, session, msgs>>

\* updateTransferView: a key that finds no manager, a batch that is not all
\* done, or no binding
TransferViewOther ==
    /\ UFrame
    /\ KeyIn(StateTransferView)
    /\ UNCHANGED <<items, qcap, model, session, ui, msgs>>

\* the terminal widths a tea.WindowSizeMsg reports
Widths == {80}

\* Update, tea.WindowSizeMsg
WindowSize ==
    /\ UFrame
    /\ session = "running"
    /\ \E w \in Widths : ui' = [ui EXCEPT !.width = w]
    /\ UNCHANGED <<items, qcap, model, session, msgs>>

\* tickCmd's tea.Tick: the 100 ms are over and the tickMsg is sent
TimerFires ==
    /\ BFrame
    /\ BFrameU
    /\ session = "running"
    /\ timer = "armed"
    /\ timer' = "fired"
    /\ UNCHANGED <<items, qcap, mvars, model, session, ctxDone, orch, cmd, hist>>

\* Update, tickMsg, leaving the transfer view once every transfer is done
TickLeavesView ==
    /\ BFrame
    /\ BFrameU
    /\ session = "running"
    /\ timer = "fired"
    /\ timer' = "none"
    /\ model' = IF model.state = StateTransferView /\ model.transferMgr # Nil
                   /\ AllDone(Mgr)
                THEN [model EXCEPT !.state = StateFileBrowser]
                ELSE model
    /\ UNCHANGED <<items, qcap, mvars, session, ctxDone, orch, cmd, hist>>

\* Update, tickMsg: return m, nil outside the transfer view or without a
\* manager, return m, tickCmd() otherwise
Tick ==
    /\ BFrame
    /\ BFrameU
    /\ session = "running"
    /\ timer = "fired"
    /\ timer' = IF model.state # StateTransferView \/ model.transferMgr = Nil
                THEN "none"
                ELSE "armed"
    /\ UNCHANGED <<items, qcap, mvars, model, session, ctxDone, orch, cmd, hist>>

(***************************************************************************)
(* package rclone: parseRcloneOutput. A stream is a sequence of            *)
(* characters; the bufio.Scanner reads it in chunks of any size and hands  *)
(* its buffer to the split function.                                       *)
(***************************************************************************)
MaxStream == 5
MaxRead == 3
\* the scanner's maximum token size (1024*1024 in the source), scaled to the
\* streams of the model
MaxTokenSize == 70

CR == "\r"
LF == "\n"

\* a split function that ends a line at "\n" only
IsNewline(c) == c = LF

\* strings.IndexAny(string(data), "\r\n"): the characters it looks for
IsDelimiter(c) == c \in {CR, LF}

\* the 1-based index of the first delimiter of data, 0 if there is none
IndexAny(data) ==
    IF \E i \in 1..Len(data) : IsDelimiter(data[i])
    THEN CHOOSE i \in 1..Len(data) :
            IsDelimiter(data[i]) /\ \A j \in 1..(i - 1) : ~IsDelimiter(data[j])
    ELSE 0

\* the split function: has is FALSE when it asks for more data
SplitFunc(data, atEOF) ==
    LET i == IndexAny(data) IN
    IF atEOF /\ Len(data) = 0
    THEN [advance |-> 0, token |-> <<>>, has |-> FALSE]
    ELSE IF i > 0
    THEN [advance |-> IF i < Len(data) /\ data[i] = CR /\ data[i + 1] = LF
                      THEN i + 1 ELSE i,
          token |-> SubSeq(data, 1, i - 1),
          has |-> TRUE]
    ELSE IF atEOF
    THEN [advance |-> Len(data), token |-> data, has |-> TRUE]
    ELSE [advance |-> 0, token |-> <<>>, has |-> FALSE]

\* the character classes of statsRegex
Digit == {"0", "1", "2", "3", "4", "5", "6", "7", "8", "9"}
DigitDot == Digit \cup {"."}
Space == {" ", "\t", "\f"}
UnitLetter == {"k", "K", "M", "G", "T", "P"}

\* statsRegex: its literal prefix
Prefix ==
    <<"T", "r", "a", "n", "s", "f", "e", "r", "r", "e", "d", ":">>

At(s, i) == IF i \in 1..Len(s) THEN s[i] ELSE ""

HasAt(s, i, lit) ==
    /\ i + Len(lit) - 1 <= Len(s)
    /\ SubSeq(s, i, i + Len(lit) - 1) = lit

\* a greedy C* or C+ from index i: the index after the longest run in class
Span(s, i, class) ==
    IF i > Len(s) THEN i
    ELSE CHOOSE j \in i..(Len(s) + 1) :
            /\ \A k \in i..(j - 1) : s[k] \in class
            /\ At(s, j) \notin class

\* [kKMGTP]i?[Bb]? from index i: the index after it, i if it does not match
UnitEnd(s, i) ==
    IF At(s, i) \notin UnitLetter THEN i
    ELSE LET j == IF At(s, i + 1) = "i" THEN i + 2 ELSE i + 1
         IN IF At(s, j) \in {"B", "b"} THEN j + 1 ELSE j

NoMatch == [ok |-> FALSE]

\* statsRegex matched from index i of the line. Every repetition is followed
\* by a character outside its class, so the greedy match is the only one.
MatchAt(s, i) ==
    LET a == i + Len(Prefix)
        b == Span(s, a, Space)
        c == Span(s, b, DigitDot)
        d == Span(s, c, Space)
        e == UnitEnd(s, d)
        f == Span(s, e, Space)
        g == Span(s, f + 1, Space)
        h == Span(s, g, DigitDot)
        k == Span(s, h, Space)
        l == UnitEnd(s, k)
        m == Span(s, l + 1, Space)
        n == Span(s, m, Digit)
    IN IF /\ HasAt(s, i, Prefix)
          /\ b > a
          /\ c > b
          /\ e > d
          /\ At(s, f) = "/"
          /\ h > g
          /\ l > k
          /\ At(s, l) = ","
          /\ n > m
          /\ At(s, n) = "%"
       THEN [ok |-> TRUE,
             m1 |-> SubSeq(s, b, c - 1), m2 |-> SubSeq(s, d, e - 1),
             m3 |-> SubSeq(s, g, h - 1), m4 |-> SubSeq(s, k, l - 1),
             m5 |-> SubSeq(s, m, n - 1)]
       ELSE NoMatch

\* statsRegex.FindStringSubmatch(line): the leftmost match
FindStringSubmatch(line) ==
    IF \E i \in 1..Len(line) : MatchAt(line, i).ok
    THEN MatchAt(line,
                 CHOOSE i \in 1..Len(line) :
                    /\ MatchAt(line, i).ok
                    /\ \A j \in 1..(i - 1) : ~MatchAt(line, j).ok)
    ELSE NoMatch

\* strconv.ParseFloat on a string of digits and dots: err == nil
ParseFloatOK(v) ==
    /\ \E i \in 1..Len(v) : v[i] \in Digit
    /\ Cardinality({i \in 1..Len(v) : v[i] = "."}) <= 1

\* natural numbers of any size: their decimal digits, the first one not 0
DigitVal(c) == CHOOSE n \in 0..9 : ToString(n) = c

RECURSIVE NatDigits(_)
NatDigits(n) == IF n = 0 THEN <<>> ELSE Append(NatDigits(n \div 10), n % 10)

RECURSIVE MulCarry(_, _, _)
MulCarry(ds, m, carry) ==
    IF ds = <<>> THEN NatDigits(carry)
    ELSE LET v == ds[Len(ds)] * m + carry
         IN Append(MulCarry(SubSeq(ds, 1, Len(ds) - 1), m, v \div 10), v % 10)

RECURSIVE Normal(_)
Normal(ds) ==
    IF ds = <<>> THEN <<0>>
    ELSE IF ds[1] = 0 /\ Len(ds) > 1 THEN Normal(Tail(ds))
    ELSE ds

\* ds * 1024^k
RECURSIVE Scale(_, _)
Scale(ds, k) == IF k = 0 THEN ds ELSE Scale(MulCarry(ds, 1024, 0), k - 1)

RECURSIVE DigitsToNat(_)
DigitsToNat(ds) ==
    IF ds = <<>> THEN 0
    ELSE 10 * DigitsToNat(SubSeq(ds, 1, Len(ds) - 1)) + ds[Len(ds)]

\* strings.ToUpper, strings.TrimSuffix
ToUpper(c) ==
    CASE c = "k" -> "K" [] c = "i" -> "I" [] c = "b" -> "B" [] OTHER -> c

TrimSuffix(s, c) ==
    IF Len(s) > 0 /\ s[Len(s)] = c THEN SubSeq(s, 1, Len(s) - 1) ELSE s

\* parseSize with the multiplier always 1024 * 1024
MultiplierMega(unit) == 2

\* parseSize: the multiplier of a unit, as a power of 1024
Multiplier(unit) ==
    LET u == TrimSuffix(TrimSuffix([i \in 1..Len(unit) |-> ToUpper(unit[i])],
                                   "B"), "I")
    IN CASE u = <<"K">> -> 1
         [] u = <<"M">> -> 2
         [] u = <<"G">> -> 3
         [] u = <<"T">> -> 4
         [] u = <<"P">> -> 5
         [] OTHER -> 0

\* parseSize: int64(val * float64(multiplier)). The product of the decimal
\* value and the power of two is truncated; the float64 the code goes through
\* gives the same integer for values of up to 15 digits whose product is not
\* within 1e-6 of an integer.
ParseSize(value, unit) ==
    IF ~ParseFloatOK(value) THEN <<0>>
    ELSE LET dot == IF \E i \in 1..Len(value) : value[i] = "."
                    THEN CHOOSE i \in 1..Len(value) : value[i] = "."
                    ELSE Len(value) + 1
             frac == Len(value) - dot
             ds == [i \in 1..Len(SelectSeq(value, LAMBDA c : c # ".")) |->
                        DigitVal(SelectSeq(value, LAMBDA c : c # ".")[i])]
             prod == Scale(ds, Multiplier(unit))
         IN Normal(SubSeq(prod, 1, Len(prod) - (IF frac > 0 THEN frac ELSE 0)))

\* the UpdateProgress call a line leads to: <<>> if it leads to none
Decode(line) ==
    LET m == FindStringSubmatch(line) IN
    IF m.ok /\ ParseFloatOK(m.m5)
    THEN <<[progress |-> DigitsToNat([i \in 1..Len(m.m5) |-> DigitVal(m.m5[i])]),
            bytesCopied |-> ParseSize(m.m1, m.m2),
            bytesTotal |-> ParseSize(m.m3, m.m4)]>>
    ELSE <<>>

\* the streams
Alphabet == {CR, LF, "a"}

ShortStreams == UNION {[1..n -> Alphabet] : n \in 0..MaxStream}

\* "progress\rline one\nTransferred:   1.234 GiB / 5.678 GiB, 22%, 10 MiB/s,
\* ETA 1m30s\r\n"
MixedStream ==
    <<"p", "r", "o", "g", "r", "e", "s", "s", CR, "l", "i", "n", "e", " ",
      "o", "n", "e", LF, "T", "r", "a", "n", "s", "f", "e", "r", "r", "e",
      "d", ":", " ", " ", " ", "1", ".", "2", "3", "4", " ", "G", "i", "B",
      " ", "/", " ", "5", ".", "6", "7", "8", " ", "G", "i", "B", ",", " ",
      "2", "2", "%", ",", " ", "1", "0", " ", "M", "i", "B", "/", "s", ",",
      " ", "E", "T", "A", " ", "1", "m", "3", "0", "s", CR, LF>>

\* "junk\nTransferred: 1 KiB / 2 KiB, 50%\n"
JunkStream ==
    <<"j", "u", "n", "k", LF, "T", "r", "a", "n", "s", "f", "e", "r", "r",
      "e", "d", ":", " ", "1", " ", "K", "i", "B", " ", "/", " ", "2", " ",
      "K", "i", "B", ",", " ", "5", "0", "%", LF>>

\* "Transferred: 1.2.3 KiB / 2 KiB, 50%\nTransferred: 2 KiB / 2 KiB, 100%"
BadSizeStream ==
    <<"T", "r", "a", "n", "s", "f", "e", "r", "r", "e", "d", ":", " ", "1",
      ".", "2", ".", "3", " ", "K", "i", "B", " ", "/", " ", "2", " ", "K",
      "i", "B", ",", " ", "5", "0", "%", LF, "T", "r", "a", "n", "s", "f",
      "e", "r", "r", "e", "d", ":", " ", "2", " ", "K", "i", "B", " ", "/",
      " ", "2", " ", "K", "i", "B", ",", " ", "1", "0", "0", "%">>

\* a line of MaxTokenSize characters, then "Transferred: 2 KiB / 2 KiB, 100%\n"
LastLine ==
    <<"T", "r", "a", "n", "s", "f", "e", "r", "r", "e", "d", ":", " ", "2",
      " ", "K", "i", "B", " ", "/", " ", "2", " ", "K", "i", "B", ",", " ",
      "1", "0", "0", "%", LF>>

LongStream == [i \in 1..MaxTokenSize |-> "x"] \o <<LF>> \o LastLine

Streams == ShortStreams \cup {MixedStream, JunkStream, BadSizeStream, LongStream}

NoScan ==
    [stream |-> <<>>, pos |-> 0, buf |-> <<>>, eof |-> FALSE, state |-> "idle",
     lines |-> <<>>, applied |-> <<>>]

PIdle == scan = NoScan

\* what the parser leaves alone
PFrame == UNCHANGED <<qvars, mvars, hvars, tvars, bvars, uvars>>

\* scanner.Scan: the split function finds a token in the buffer; the loop
\* body of parseRcloneOutput runs on it
ScanToken ==
    /\ PFrame
    /\ scan.state = "scanning"
    /\ Len(scan.buf) > 0 \/ scan.eof
    /\ LET r == SplitFunc(scan.buf, scan.eof) IN
          /\ r.has
          /\ scan' = [scan EXCEPT
                !.buf = SubSeq(@, r.advance + 1, Len(@)),
                !.lines = IF r.token = <<>> THEN @ ELSE Append(@, r.token),
                !.applied = IF r.token = <<>> THEN @ ELSE @ \o Decode(r.token)]

\* scanner.Scan: the split function asks for more and the reader has some
ScanRead ==
    /\ PFrame
    /\ scan.state = "scanning"
    /\ ~scan.eof
    /\ ~SplitFunc(scan.buf, FALSE).has
    /\ Len(scan.buf) < MaxTokenSize
    /\ \E n \in 1..MaxRead :
          /\ scan.pos + n <= Len(scan.stream)
          /\ Len(scan.buf) + n <= MaxTokenSize
          /\ scan' = [scan EXCEPT
                !.buf = @ \o SubSeq(scan.stream, scan.pos + 1, scan.pos + n),
                !.pos = @ + n]

\* scanner.Scan: the reader is at the end of the stream
ScanEOF ==
    /\ PFrame
    /\ scan.state = "scanning"
    /\ ~scan.eof
    /\ ~SplitFunc(scan.buf, FALSE).has
    /\ Len(scan.buf) < MaxTokenSize
    /\ scan.pos = Len(scan.stream)
    /\ scan' = [scan EXCEPT !.eof = TRUE]

\* scanner.Scan: the buffer is full and holds no token: ErrTooLong, Scan
\* returns false
ScanTooLong ==
    /\ PFrame
    /\ scan.state = "scanning"
    /\ ~scan.eof
    /\ ~SplitFunc(scan.buf, FALSE).has
    /\ Len(scan.buf) >= MaxTokenSize
    /\ scan' = [scan EXCEPT !.state = "tooLong"]

\* scanner.Scan: nothing is left at the end of the stream, Scan returns false
ScanEnd ==
    /\ PFrame
    /\ scan.state = "scanning"
    /\ scan.eof
    /\ ~SplitFunc(scan.buf, TRUE).has
    /\ scan' = [scan EXCEPT !.state = "done"]

PNext == ScanToken \/ ScanRead \/ ScanEOF \/ ScanTooLong \/ ScanEnd

\* a batch: the keys of the transfer view, the goroutines, the subprocess
BNext ==
    \/ KeyStart
    \/ KeyQuit
    \/ KeyEnterDone
    \/ KeyQDone
    \/ TransferViewOther
    \/ ProcessExit
    \/ OrchNext
    \/ ProcOutput
    \/ ProcExit
    \/ ProcKill
    \/ ParserNext

QInit ==
    /\ MInit
    /\ TInit
    /\ BInit
    /\ UIdle
    /\ PIdle
    /\ items = New
    /\ qcap = 0
    /\ ret = NoHeld
    /\ qcall = [op |-> "New"]
    /\ qprev = <<>>
    /\ qadded = {}

QAddOf(remote, file) ==
    /\ items' = QueueAdd(items, remote, file)
    /\ qcap' = Grow(qcap, Len(items'))
    /\ ret' = HeldAfter(ret, items', qcap' = qcap)
    /\ qcall' = [op |-> "Add", remote |-> remote, file |-> file]
    /\ qprev' = items
    /\ qadded' = qadded \cup {<<remote, file.Path>>}
    /\ QFrame

QAdd ==
    \E remote \in Remotes, file \in FileItems : QAddOf(remote, file)

QRemove ==
    \E index \in -1..(Len(items) + 1) :
        /\ items' = QueueRemove(items, index)
        /\ ret' = HeldAfter(ret, items', TRUE)
        /\ qcall' = [op |-> "Remove", index |-> index]
        /\ qprev' = items
        /\ UNCHANGED <<qcap, qadded>>
        /\ QFrame

QClear ==
    /\ items' = QueueClear(items)
    /\ qcap' = 0
    /\ ret' = HeldAfter(ret, items', FALSE)
    /\ qcall' = [op |-> "Clear"]
    /\ qprev' = items
    /\ UNCHANGED qadded
    /\ QFrame

QNext == QAdd \/ QRemove \/ QClear

\* the callers of the Queue that keep what an accessor returned: one remote,
\* files of one size
RefFiles == {f \in FileItems : f.Size = 1}

RAdd ==
    \E file \in RefFiles : QAddOf("r1", file)

QUpdateProgress ==
    \E path \in Paths :
        /\ items' = QueueUpdateProgress(items, path, 50, "1 MiB/s")
        /\ ret' = HeldAfter(ret, items', TRUE)
        /\ qcall' = [op |-> "UpdateProgress", path |-> path]
        /\ qprev' = items
        /\ UNCHANGED <<qcap, qadded>>
        /\ QFrame

QSetStatus ==
    \E path \in Paths :
        /\ items' = QueueSetStatus(items, path, StatusCompletedItem, "nil")
        /\ ret' = HeldAfter(ret, items', TRUE)
        /\ qcall' = [op |-> "SetStatus", path |-> path]
        /\ qprev' = items
        /\ UNCHANGED <<qcap, qadded>>
        /\ QFrame

QItems ==
    /\ ret' = QueueItems(items)
    /\ qcall' = [op |-> "Items"]
    /\ qprev' = items
    /\ UNCHANGED <<items, qcap, qadded>>
    /\ QFrame

QGetNextPending ==
    /\ ret' = GetNextPending(items)
    /\ qcall' = [op |-> "GetNextPending"]
    /\ qprev' = items
    /\ UNCHANGED <<items, qcap, qadded>>
    /\ QFrame

\* the caller assigns to the Status of the item it was given: of the first
\* item of its copy, or through its pointer
CallerWrites ==
    /\ \/ /\ ret.kind = "copy"
          /\ Len(ret.val) > 0
          /\ ret' = [ret EXCEPT !.val[1].Status = StatusErrorItem]
          /\ UNCHANGED items
       \/ /\ ret.kind = "ptr"
          /\ ret' = [ret EXCEPT !.val.Status = StatusErrorItem]
          /\ items' = IF ret.live /\ ret.idx < Len(items)
                      THEN [items EXCEPT ![ret.idx + 1].Status = StatusErrorItem]
                      ELSE items
    /\ qcall' = [op |-> "write"]
    /\ qprev' = items
    /\ UNCHANGED <<qcap, qadded>>
    /\ QFrame

RNext ==
    \/ RAdd
    \/ QRemove
    \/ QClear
    \/ QUpdateProgress
    \/ QSetStatus
    \/ QItems
    \/ QGetNextPending
    \/ CallerWrites

TNext ==
    \E t \in Threads :
        \/ AddLock(t)
        \/ AddStore(t)
        \/ WriteLock(t)
        \/ WriteLookup(t)
        \/ WriteEntry(t)
        \/ UpdateRLock(t)
        \/ UpdateLookup(t)
        \/ UpdateEntryLock(t)
        \/ UpdateEntry(t)
        \/ StatsRLock(t)
        \/ StatsEntryLock(t)
        \/ StatsEntry(t)
        \/ StatsReturn(t)

\* the transfer view is drawn: startDownloads has registered the whole queue
VInit ==
    /\ TInit
    /\ BInit
    /\ UIdle
    /\ PIdle
    /\ qcall = [op |-> "New"]
    /\ qprev = <<>>
    /\ qadded = {}
    /\ ret = NoHeld
    /\ \E n \in 1..MaxItems :
          /\ items = QueueOf(n)
          /\ qcap = Grow(0, n)
          /\ transfers = AddAll(NewTransferManager, QueueOf(n), ".", 0).transfers
          /\ heap = AddAll(NewTransferManager, QueueOf(n), ".", 0).heap
          /\ panicked = FALSE
    /\ mcall = [op |-> "NewTransferManager"]
    /\ mprev = NewTransferManager

\* the callers of the manager while the transfer view is drawn: CopyFile,
\* the parser goroutine and the view
VNext ==
    \E t \in Threads :
        \/ WriteLock(t)
        \/ WriteLookup(t)
        \/ WriteEntry(t)
        \/ UpdateRLock(t)
        \/ UpdateLookup(t)
        \/ UpdateEntryLock(t)
        \/ UpdateEntry(t)
        \/ GetAllRLock(t)
        \/ GetAllReturn(t)
        \/ ViewEntry(t)

BatchInit ==
    /\ MInit
    /\ TInit
    /\ BInit
    /\ UIdle
    /\ PIdle
    /\ \E n \in 0..MaxItems : items = QueueOf(n) /\ qcap = Grow(0, n)
    /\ ret = NoHeld
    /\ qcall = [op |-> "New"]
    /\ qprev = <<>>
    /\ qadded = {}

\* the program from its start: NewModel, and Init's loadRemotes in flight
UInit ==
    /\ MInit
    /\ TInit
    /\ items = New
    /\ qcap = 0
    /\ ret = NoHeld
    /\ qcall = [op |-> "New"]
    /\ qprev = <<>>
    /\ qadded = {}
    /\ model = NewModel
    /\ session = "running"
    /\ ctxDone = FALSE
    /\ orch = NoOrch
    /\ cmd = NoCmd
    /\ hist = [batch |-> <<>>, cancelK |-> -1, copyErr |-> <<>>]
    /\ timer = "none"
    /\ ui = NewBrowser
    /\ msgs = {LoadRemotes}
    /\ PIdle

\* parseRcloneOutput called on the stderr of one rclone: any of the streams
PInit ==
    /\ MInit
    /\ TInit
    /\ BInit
    /\ UIdle
    /\ items = New
    /\ qcap = 0
    /\ ret = NoHeld
    /\ qcall = [op |-> "New"]
    /\ qprev = <<>>
    /\ qadded = {}
    /\ \E s \in Streams : scan = [NoScan EXCEPT !.stream = s, !.state = "scanning"]

\* the key handlers of the browser other than the global quit
BrowserKeys ==
    \/ RemoteSelectUp
    \/ RemoteSelectDown
    \/ RemoteSelectEnter
    \/ RemoteSelectQ
    \/ FilterEscape
    \/ FilterEnter
    \/ FilterType
    \/ BrowserUp
    \/ BrowserDown
    \/ BrowserEnter
    \/ BrowserBack
    \/ BrowserSelect
    \/ BrowserSelectAll
    \/ BrowserFilter
    \/ BrowserEscape
    \/ BrowserRefresh
    \/ BrowserQueue
    \/ QueueViewUp
    \/ QueueViewDown
    \/ QueueViewRemove
    \/ QueueViewEscape
    \/ TransferViewOther
    \/ KeyDismiss

\* the browser, up to the start of a batch and the quit
UNext ==
    \/ BrowserKeys
    \/ RemotesLoaded
    \/ FilesLoaded
    \/ KeyStart
    \/ KeyQuit
    \/ ProcessExit

\* the listings of a directory "rclone lsjson" can answer: up to MaxFiles
\* entries, a file "a" or a directory "d" each; a remote that keeps several
\* entries of one name (Google Drive does) lists each of them
MaxFiles == 3

Names == {"a", "d"}

Listings == UNION {[1..n -> Names] : n \in 0..MaxFiles}

ListingOf(names) ==
    [i \in 1..Len(names) |->
        BrowserItem([Name |-> names[i], Path |-> names[i], Size |-> 1,
                     IsDir |-> names[i] = "d"])]

\* the file browser showing the root of a remote, its listing loaded
SelInit ==
    /\ MInit
    /\ TInit
    /\ PIdle
    /\ items = New
    /\ qcap = 0
    /\ ret = NoHeld
    /\ qcall = [op |-> "New"]
    /\ qprev = <<>>
    /\ qadded = {}
    /\ model = [NewModel EXCEPT !.state = StateFileBrowser]
    /\ session = "running"
    /\ ctxDone = FALSE
    /\ orch = NoOrch
    /\ cmd = NoCmd
    /\ hist = [batch |-> <<>>, cancelK |-> -1, copyErr |-> <<>>]
    /\ timer = "none"
    /\ \E names \in Listings :
          ui = [NewBrowser EXCEPT !.remotes = ListRemotes, !.currentRemote = "r1",
                                  !.files = ListingOf(names)]
    /\ msgs = {}

\* the keys that move the cursor, select and filter
SelNext ==
    \/ BrowserUp
    \/ BrowserDown
    \/ BrowserSelect
    \/ BrowserSelectAll
    \/ BrowserFilter
    \/ FilterType
    \/ FilterEnter
    \/ FilterEscape
    \/ BrowserEscape

\* the sessions of SpecUI up to the start of a batch and, from the queue views
\* of BatchInit, the batches of SpecBatch; with the timer and the window
SInit == UInit \/ BatchInit

\* a state of the behaviours that start in BatchInit: past the remote
\* selection without a remote
FromBatchInit == ui.currentRemote = "" /\ model.state # StateRemoteSelect

SNext ==
    \/ ~FromBatchInit /\ UNext
    \/ FromBatchInit /\ BNext
    \/ WindowSize
    \/ TimerFires
    \/ Tick

vars == <<qvars, mvars, hvars, tvars, bvars, uvars, pvars>>

SpecQueue == QInit /\ [][QNext]_vars

SpecQueueRefs == QInit /\ [][RNext]_vars

SpecTM == QInit /\ [][MNext]_vars

SpecTMLocks == QInit /\ [][TNext]_vars

SpecTMView == VInit /\ [][VNext]_vars

SpecTMCalls == QInit /\ [][CNext]_vars

SpecBatch == BatchInit /\ [][BNext]_vars

SpecUI == UInit /\ [][UNext]_vars

SpecScreens == SInit /\ [][SNext]_vars

SpecSelect == SelInit /\ [][SelNext]_vars

SpecParse == PInit /\ [][PNext]_vars

\* the goroutines are scheduled, and a subprocess that runs ends
SpecBatchFair ==
    /\ SpecBatch
    /\ WF_vars(OrchNext)
    /\ WF_vars(ParserNext)
    /\ WF_vars(ProcExit)

(***************************************************************************)
(* C1: in every reachable Queue state no two items share the same          *)
(* (remote, path) pair; Add on a pair already present leaves the queue     *)
(* unchanged; the queue is never longer than the number of distinct pairs  *)
(* Add was called with.                                                    *)
(***************************************************************************)
C1_UniquePairs ==
    /\ \A j, k \in 1..Len(items) : j # k => Pair(items[j]) # Pair(items[k])
    /\ (qcall.op = "Add" /\ Contains(qprev, qcall.remote, qcall.file.Path))
          => items = qprev
    /\ Len(items) <= Cardinality(qadded)

\* a duplicate Add (same pair, another size) was made on a queue of two items
C1_Witness ==
    /\ qcall.op = "Add"
    /\ Len(qprev) = 2
    /\ Contains(qprev, qcall.remote, qcall.file.Path)
    /\ \E k \in 1..Len(qprev) :
          /\ Pair(qprev[k]) = <<qcall.remote, qcall.file.Path>>
          /\ qprev[k].Size # qcall.file.Size

(***************************************************************************)
(* C2: Remove(i) with i < 0 or i >= len leaves the queue unchanged; with   *)
(* 0 <= i < len it removes exactly the item at position i and keeps the    *)
(* other items in their relative order.                                    *)
(***************************************************************************)
C2_RemoveEffect ==
    qcall.op = "Remove" =>
        LET i == qcall.index IN
        IF i < 0 \/ i >= Len(qprev)
        THEN items = qprev
        ELSE /\ Len(items) = Len(qprev) - 1
             /\ \A k \in 1..Len(items) :
                   items[k] = IF k <= i THEN qprev[k] ELSE qprev[k + 1]

\* the middle item of three was removed
C2_Witness ==
    /\ qcall.op = "Remove"
    /\ qcall.index = 1
    /\ Len(qprev) = 3
    /\ Len(items) = 2

(***************************************************************************)
(* C4: whatever the interleaving of Add, Start, UpdateProgress, Complete   *)
(* and Fail with a Stats call, the four counts Stats returns sum to the    *)
(* number of transfers registered when it returns (and, m.mu being held    *)
(* for the whole call, when it was called).                                *)
(***************************************************************************)
C4_StatsSum ==
    \A t \in Threads :
        (pc[t] = "scan" /\ call[t].todo = {}) =>
            call[t].pending + call[t].inProgress + call[t].completed
                + call[t].failed = Cardinality(DOMAIN transfers)

\* a Stats call is about to return two entries of different statuses
C4_Witness ==
    \E t \in Threads :
        /\ pc[t] = "scan"
        /\ call[t].todo = {}
        /\ call[t].inProgress = 1
        /\ call[t].failed = 1

(***************************************************************************)
(* C3: UpdateProgress on a registered entry whose status is not InProgress *)
(* (Pending, Completed or Failed) leaves the entry's progress, bytes       *)
(* copied, bytes total and speed as they were.                             *)
(***************************************************************************)
C3_NoOpUnlessInProgress ==
    (/\ mcall.op = "UpdateProgress"
     /\ Exists(mprev.transfers, mcall.id)
     /\ mprev.heap[mprev.transfers[mcall.id]].Status # StatusInProgress)
    => LET old == mprev.heap[mprev.transfers[mcall.id]]
           new == heap[transfers[mcall.id]]
       IN /\ new.Progress = old.Progress
          /\ new.BytesCopied = old.BytesCopied
          /\ new.BytesTotal = old.BytesTotal
          /\ new.Speed = old.Speed

(***************************************************************************)
(* C5: in a batch every transfer is registered Pending and its status      *)
(* changes only from Pending to InProgress and from InProgress to          *)
(* Completed or Failed: it never returns to Pending, never leaves          *)
(* Completed or Failed, and is never Completed or Failed without having    *)
(* been InProgress.                                                        *)
(***************************************************************************)
StatusOf(h, id) == h[id].Status

C5_Monotonic ==
    [][/\ \A id \in DOMAIN transfers :
             /\ id \in DOMAIN transfers'
             /\ \/ StatusOf(heap', transfers'[id]) = StatusOf(heap, transfers[id])
                \/ <<StatusOf(heap, transfers[id]), StatusOf(heap', transfers'[id])>>
                      \in {<<StatusPending, StatusInProgress>>,
                           <<StatusInProgress, StatusCompleted>>,
                           <<StatusInProgress, StatusFailed>>}
       /\ \A id \in (DOMAIN transfers') \ (DOMAIN transfers) :
             StatusOf(heap', transfers'[id]) = StatusPending]_vars

\* a cancelled batch of three: one Completed, one Failed, one still Pending
C5_Witness ==
    /\ Len(hist.batch) = 3
    /\ ctxDone
    /\ StatusOf(heap, TransferID(0)) = StatusCompleted
    /\ StatusOf(heap, TransferID(1)) = StatusFailed
    /\ StatusOf(heap, TransferID(2)) = StatusPending

(***************************************************************************)
(* C6: Start, UpdateProgress, Complete and Fail called with an ID that is  *)
(* not registered leave the TransferManager as it was: no entry is         *)
(* created, no entry is modified, and the call does not panic.             *)
(***************************************************************************)
C6_UnknownIDNoOp ==
    (/\ mcall.op \in {"Start", "UpdateProgress", "Complete", "Fail"}
     /\ mcall.id \notin DOMAIN mprev.transfers)
    => /\ Mgr = mprev
       /\ ~panicked

\* Fail was called with an unregistered ID while another entry was InProgress
C6_Witness ==
    /\ mcall.op = "Fail"
    /\ mcall.id \notin DOMAIN mprev.transfers
    /\ \E id \in DOMAIN mprev.transfers :
          mprev.heap[mprev.transfers[id]].Status = StatusInProgress

(***************************************************************************)
(* C7: the orchestrator runs the batch one item at a time in the order of  *)
(* the snapshot: at most one transfer is InProgress; the transfer of an    *)
(* item becomes InProgress only when CopyFile has returned for every       *)
(* earlier item and none of them is InProgress; and when a transfer        *)
(* becomes Completed or Failed every later transfer is still Pending.      *)
(***************************************************************************)
BatchIndices == 0..(Len(hist.batch) - 1)

InProgressCount(h) ==
    Cardinality({i \in BatchIndices : StatusOf(h, TransferID(i)) = StatusInProgress})

Terminal == {StatusCompleted, StatusFailed}

C7_Sequential ==
    [][/\ InProgressCount(heap) <= 1
       /\ InProgressCount(heap') <= 1
       /\ \A j \in BatchIndices :
             (/\ StatusOf(heap, TransferID(j)) # StatusInProgress
              /\ StatusOf(heap', TransferID(j)) = StatusInProgress)
             => /\ Len(hist.copyErr) = j
                /\ \A i \in 0..(j - 1) :
                      StatusOf(heap, TransferID(i)) # StatusInProgress
       /\ \A j \in BatchIndices :
             (/\ StatusOf(heap, TransferID(j)) \notin Terminal
              /\ StatusOf(heap', TransferID(j)) \in Terminal)
             => /\ \A i \in 0..(j - 1) :
                      StatusOf(heap', TransferID(i)) # StatusInProgress
                /\ \A k \in BatchIndices :
                      k > j => StatusOf(heap', TransferID(k)) = StatusPending]_vars

\* the third item is InProgress after the first Failed and the second Completed
C7_Witness ==
    /\ Len(hist.batch) = 3
    /\ StatusOf(heap, TransferID(0)) = StatusFailed
    /\ StatusOf(heap, TransferID(1)) = StatusCompleted
    /\ StatusOf(heap, TransferID(2)) = StatusInProgress

(***************************************************************************)
(* C8: without cancellation, once CopyFile has returned an error for an    *)
(* item, that item's transfer is Failed with the error recorded.           *)
(***************************************************************************)
C8_ErrorMeansFailed ==
    ~ctxDone =>
        \A i \in 1..Len(hist.copyErr) :
            hist.copyErr[i] # "nil" =>
                /\ StatusOf(heap, TransferID(i - 1)) = StatusFailed
                /\ heap[TransferID(i - 1)].Error # "nil"

(***************************************************************************)
(* C9: a batch of n items is started; if it is not cancelled before every  *)
(* CopyFile has returned and every CopyFile returns without error, then    *)
(* eventually Stats is (0, 0, n, 0) and stays so.                          *)
(***************************************************************************)
BatchStarted == model.transferCancel # Nil

CleanRun ==
    /\ ctxDone => Len(hist.copyErr) = Len(hist.batch)
    /\ \A i \in 1..Len(hist.copyErr) : hist.copyErr[i] = "nil"

AllCompleted == Stats(Mgr) = <<0, 0, Len(hist.batch), 0>>

C9_EventuallyAllCompleted ==
    ([]CleanRun /\ <>BatchStarted) => <>[](BatchStarted /\ AllCompleted)

\* a batch of three that was not cancelled has Stats (0, 0, 3, 0)
C9_Witness ==
    /\ BatchStarted
    /\ ~ctxDone
    /\ Len(hist.batch) = 3
    /\ Len(hist.copyErr) = 3
    /\ Stats(Mgr) = <<0, 0, 3, 0>>

(***************************************************************************)
(* C10: once the batch was cancelled while item k was InProgress, no       *)
(* transfer of a later item ever leaves Pending, and a transfer that is    *)
(* Completed stays Completed.                                              *)
(***************************************************************************)
C10_CancelStops ==
    [][(ctxDone /\ hist.cancelK >= 0) =>
          /\ \A j \in BatchIndices :
                j > hist.cancelK =>
                   /\ StatusOf(heap, TransferID(j)) = StatusPending
                   /\ StatusOf(heap', TransferID(j)) = StatusPending
          /\ \A i \in BatchIndices :
                StatusOf(heap, TransferID(i)) = StatusCompleted
                   => StatusOf(heap', TransferID(i)) = StatusCompleted]_vars

\* cancelled during the second of three items: the orchestrator has returned,
\* the first is Completed, the third still Pending
C10_Witness ==
    /\ ctxDone
    /\ hist.cancelK = 1
    /\ Len(hist.batch) = 3
    /\ orch.pc = "done"
    /\ StatusOf(heap, TransferID(0)) = StatusCompleted
    /\ StatusOf(heap, TransferID(1)) \in Terminal
    /\ StatusOf(heap, TransferID(2)) = StatusPending

(***************************************************************************)
(* C11: once the batch was cancelled while a transfer was InProgress, that *)
(* transfer is never marked Completed and never marked Failed: it stays    *)
(* InProgress.                                                             *)
(***************************************************************************)
C11_InFlightStaysUnset ==
    (ctxDone /\ hist.cancelK >= 0) =>
        StatusOf(heap, TransferID(hist.cancelK)) = StatusInProgress

(***************************************************************************)
(* C12: the global quit key is accepted on every screen and in every mode  *)
(* (filter mode, error shown, load outstanding, transfers registered); it  *)
(* ends the session and cancels the transfer scope if there is one. Every  *)
(* step that ends the session while a registered transfer is Pending or    *)
(* InProgress leaves the scope cancelled, and a quit that finds the scope  *)
(* already cancelled changes nothing of the batch.                         *)
(***************************************************************************)
Unfinished ==
    /\ model.transferMgr # Nil
    /\ ~AllDone(Mgr)

C12_QuitStep ==
    /\ KeyQuit =>
          /\ session' = "quitting"
          /\ (model.transferCancel # Nil => ctxDone')
    /\ (session = "running" /\ session' # "running" /\ Unfinished) => ctxDone'
    /\ (KeyQuit /\ ctxDone) =>
          UNCHANGED <<ctxDone, hist, items, mvars, hvars, model, orch, cmd, uvars>>

C12_GlobalQuit ==
    /\ [](session = "running" => ENABLED KeyQuit)
    /\ [][C12_QuitStep]_vars

\* the session was ended from the transfer view, transfers registered and
\* none finished, an error shown and a load outstanding: the scope is cancelled
C12_Witness ==
    /\ session = "quitting"
    /\ model.state = StateTransferView
    /\ Unfinished
    /\ ctxDone
    /\ ui.err # Nil
    /\ msgs # {}

(***************************************************************************)
(* C13: while a transfer of the current manager is Pending or InProgress   *)
(* the screen is the TransferView, no step changes the screen, the queue   *)
(* or the manager the model holds, and a key other than the global quit    *)
(* changes nothing of the manager's transfers. The manager is discarded    *)
(* only by the confirm key with every transfer Completed or Failed, which  *)
(* clears the queue and moves to the FileBrowser; confirm is accepted then.*)
(***************************************************************************)
SomeActive ==
    /\ model.transferMgr # Nil
    /\ \E id \in DOMAIN transfers :
          heap[transfers[id]].Status \in {StatusPending, StatusInProgress}

\* Update: a key that is not the global quit
NonQuitKey == BrowserKeys \/ KeyStart \/ KeyEnterDone \/ KeyQDone

C13_Step ==
    /\ SomeActive => (model' = model /\ items' = items)
    /\ (SomeActive /\ NonQuitKey) => UNCHANGED <<mvars, hvars>>
    /\ (model.transferMgr # Nil /\ model'.transferMgr = Nil) =>
          /\ ~SomeActive
          /\ KeyEnterDone
          /\ items' = <<>>
          /\ model'.state = StateFileBrowser

C13_TransferViewHolds ==
    /\ [](SomeActive => model.state = StateTransferView)
    /\ []((/\ session = "running"
           /\ ui.err = Nil
           /\ model.state = StateTransferView
           /\ model.transferMgr # Nil
           /\ ~SomeActive) => ENABLED KeyEnterDone)
    /\ [][C13_Step]_vars

\* a batch of two ended with one transfer Completed and one Failed, and the
\* confirm key has cleared the queue and discarded the manager
C13_Witness ==
    /\ Len(hist.batch) = 2
    /\ StatusOf(heap, TransferID(0)) = StatusCompleted
    /\ StatusOf(heap, TransferID(1)) = StatusFailed
    /\ model.transferMgr = Nil
    /\ model.state = StateFileBrowser
    /\ items = <<>>

(***************************************************************************)
(* C14: from every current path p (the empty root path included) and       *)
(* back-stack s, entering a directory and going back gives path p and      *)
(* stack s again, and so do two descents followed by two backs.            *)
(***************************************************************************)
SamePlace(u, v) ==
    /\ u.currentPath = v.currentPath
    /\ u.pathStack = v.pathStack

C14_DescentThenBack ==
    \A d1, d2 \in {"a", "d"} :
        LET u1 == EnterDirectory(ui, d1)
            u2 == EnterDirectory(u1, d2)
        IN /\ Len(u1.pathStack) > 0
           /\ SamePlace(GoBack(u1), ui)
           /\ Len(u2.pathStack) > 1
           /\ SamePlace(GoBack(u2), u1)
           /\ SamePlace(GoBack(GoBack(u2)), ui)

\* the browser went from the root into "d" and "d/d" and back twice: the
\* loads of "d" and of the root are in flight, the listing shown is the one
\* of "d/d", and the path and the stack are those of the root again
C14_Witness ==
    /\ ui.currentPath = ""
    /\ ui.pathStack = <<>>
    /\ ui.currentRemote = "r1"
    /\ ui.files = <<>>
    /\ msgs = {[type |-> "files", remote |-> "r1", path |-> "d"],
               [type |-> "files", remote |-> "r1", path |-> ""]}

(***************************************************************************)
(* C15: while a load is outstanding (the loading flag is set and the       *)
(* result message is not delivered yet) a navigation key of the screen     *)
(* (move, confirm, back, select, queue, refresh) changes nothing of the    *)
(* application state and issues no load.                                   *)
(***************************************************************************)
LoadOutstanding ==
    /\ ui.loading
    /\ msgs # {}

NavigationKey ==
    \/ RemoteSelectUp
    \/ RemoteSelectDown
    \/ RemoteSelectEnter
    \/ BrowserUp
    \/ BrowserDown
    \/ BrowserEnter
    \/ BrowserBack
    \/ BrowserSelect
    \/ BrowserQueue
    \/ BrowserRefresh

C15_IgnoredWhileLoading ==
    [][(LoadOutstanding /\ NavigationKey) => UNCHANGED <<ui, model, items, msgs>>]_vars

(***************************************************************************)
(* C16: once a failed directory listing was delivered and its error was    *)
(* dismissed, with no other load in flight, the listing shown is the       *)
(* listing of the current path.                                            *)
(***************************************************************************)
ShownListing(u) == [i \in 1..Len(u.files) |-> FileItemOf(u.files[i])]

C16_Step ==
    (KeyDismiss /\ ui.err = "failed to list files" /\ msgs = {}) =>
        ShownListing(ui') = ListFiles(ui'.currentRemote, ui'.currentPath)

C16_ListingOfCurrentPath == [][C16_Step]_vars

\* the same, for a failed listing of a directory entered from a listing
C16_StepEntered ==
    (Len(ui.pathStack) > 0 /\ ui.files # <<>>) => C16_Step

C16_ListingOfEnteredPath == [][C16_StepEntered]_vars

(***************************************************************************)
(* C17: whatever the chunks the stream is read in, the non-empty lines the *)
(* parser has processed are the non-empty pieces of what it consumed, cut  *)
(* at every "\r\n", lone "\r" and lone "\n"; at the end of the stream, with *)
(* or without a last terminator, they are those of the whole stream.       *)
(***************************************************************************)
RECURSIVE PiecesOf(_, _)
PiecesOf(s, i) ==
    IF i > Len(s) THEN <<>>
    ELSE LET j == CHOOSE k \in i..(Len(s) + 1) :
                    /\ \A n \in i..(k - 1) : s[n] \notin {CR, LF}
                    /\ k = Len(s) + 1 \/ s[k] \in {CR, LF}
             next == IF j < Len(s) /\ s[j] = CR /\ s[j + 1] = LF
                     THEN j + 2 ELSE j + 1
         IN (IF j = i THEN <<>> ELSE <<SubSeq(s, i, j - 1)>>) \o PiecesOf(s, next)

ExpectedLines(s) == PiecesOf(s, 1)

Consumed == SubSeq(scan.stream, 1, scan.pos - Len(scan.buf))

C17_LinesWhateverTheChunks ==
    /\ scan.state # "idle" => scan.lines = ExpectedLines(Consumed)
    /\ scan.state = "done" => scan.lines = ExpectedLines(scan.stream)

\* the mixed stream, read so that its last "\r" ended a buffer and the "\n"
\* came with the next read: three lines
C17_Witness ==
    /\ scan.stream = MixedStream
    /\ scan.pos = Len(MixedStream)
    /\ scan.buf = <<LF>>
    /\ Len(scan.lines) = 3
    /\ scan.lines[1] = <<"p", "r", "o", "g", "r", "e", "s", "s">>
    /\ scan.lines[2] = <<"l", "i", "n", "e", " ", "o", "n", "e">>

(***************************************************************************)
(* C18: the line "Transferred:   1.234 GiB / 5.678 GiB, 22%, 10 MiB/s, ETA *)
(* 1m30s" leads to one UpdateProgress call with percentage 22, copied      *)
(* bytes 1324997410 and total bytes 6096706076: each size is its value     *)
(* times 1024^3, truncated to an integer.                                  *)
(***************************************************************************)
ExampleDecoded == scan.stream = MixedStream /\ scan.state = "done"

C18_ExampleLine ==
    ExampleDecoded =>
        scan.applied = <<[progress |-> 22,
                          bytesCopied |-> <<1, 3, 2, 4, 9, 9, 7, 4, 1, 0>>,
                          bytesTotal |-> <<6, 0, 9, 6, 7, 0, 6, 0, 7, 6>>]>>

C18_Witness ==
    /\ ExampleDecoded
    /\ Len(scan.applied) = 1
    /\ scan.applied[1].progress = 22

\* the same with the byte counts 1325723204 and 6097700864
C18_ExampleLineAsWritten ==
    ExampleDecoded =>
        scan.applied = <<[progress |-> 22,
                          bytesCopied |-> <<1, 3, 2, 5, 7, 2, 3, 2, 0, 4>>,
                          bytesTotal |-> <<6, 0, 9, 7, 7, 0, 0, 8, 6, 4>>]>>

(***************************************************************************)
(* C19: malformed input never stops the parser: when it returns, the       *)
(* UpdateProgress calls it made are those of every non-empty line of the   *)
(* stream, in order: none for a line that does not match, one with 0 for a *)
(* size that does not parse, and one for every well-formed line after them.*)
(***************************************************************************)
RECURSIVE DecodeAll(_)
DecodeAll(ls) ==
    IF ls = <<>> THEN <<>> ELSE Decode(Head(ls)) \o DecodeAll(Tail(ls))

Returned == scan.state \in {"done", "tooLong"}

C19_NeverStops ==
    Returned => scan.applied = DecodeAll(ExpectedLines(scan.stream))

\* the two malformed lines of the claim: a line that does not match, a size
\* with two dots
C19_MalformedLines ==
    /\ (Returned /\ scan.stream = JunkStream) =>
          scan.applied = <<[progress |-> 50, bytesCopied |-> <<1, 0, 2, 4>>,
                            bytesTotal |-> <<2, 0, 4, 8>>]>>
    /\ (Returned /\ scan.stream = BadSizeStream) =>
          scan.applied = <<[progress |-> 50, bytesCopied |-> <<0>>,
                            bytesTotal |-> <<2, 0, 4, 8>>],
                           [progress |-> 100, bytesCopied |-> <<2, 0, 4, 8>>,
                            bytesTotal |-> <<2, 0, 4, 8>>]>>

(***************************************************************************)
(* C20: a caller that reads or writes the fields of a Transfer entry (the  *)
(* writes of Start, UpdateProgress, Complete and Fail, the reads of Stats  *)
(* and of the transfer view) holds that entry's lock.                      *)
(***************************************************************************)
AtEntry(t) == pc[t] \in {"wentry", "uentry", "scanEntry", "viewEntry"}

C20_AccessUnderLock ==
    \A t \in Threads : AtEntry(t) => entryLock[call[t].t] = t

\* no caller is at its reads of an entry while another is at its writes of it
C20_NoRace ==
    \A t, u \in Threads :
        (pc[t] = "viewEntry" /\ pc[u] \in {"wentry", "uentry"}) =>
            call[t].t # call[u].t

(***************************************************************************)
(* C21: every Queue accessor returns a copy and never a live reference:    *)
(* what Items() or GetNextPending() returned shows the same value after a  *)
(* later Add, Remove, Clear, UpdateProgress or SetStatus, and an           *)
(* assignment by the caller to what it was given leaves the queue as it    *)
(* was.                                                                    *)
(***************************************************************************)
QueueMutator == RAdd \/ QRemove \/ QClear \/ QUpdateProgress \/ QSetStatus

C21_Step ==
    /\ (QueueMutator /\ ret.kind \in {"copy", "ptr"}) => ret'.val = ret.val
    /\ CallerWrites => items' = items

C21_AccessorsReturnCopies == [][C21_Step]_vars

\* the same of Items() alone
C21_ItemsStep ==
    /\ (QueueMutator /\ ret.kind = "copy") => ret'.val = ret.val
    /\ (CallerWrites /\ ret.kind = "copy") => items' = items

C21_ItemsReturnsCopy == [][C21_ItemsStep]_vars

(***************************************************************************)
(* C22: the screen changes only along RemoteSelect -> FileBrowser (confirm *)
(* with a non-empty remote list), FileBrowser -> RemoteSelect (back with   *)
(* an empty back-stack), FileBrowser -> QueueView (queue action, queue     *)
(* non-empty), QueueView -> FileBrowser (back), QueueView -> TransferView  *)
(* (start, queue non-empty), TransferView -> FileBrowser (confirm, every   *)
(* transfer terminal); the program starts in RemoteSelect; ticks, load     *)
(* results, window sizes and the other keys leave the screen as it is.     *)
(***************************************************************************)
C22_Edge ==
    \/ /\ model.state = StateRemoteSelect /\ model'.state = StateFileBrowser
       /\ RemoteSelectEnter
       /\ Len(ui.remotes) > 0
    \/ /\ model.state = StateFileBrowser /\ model'.state = StateRemoteSelect
       /\ BrowserBack
       /\ ui.pathStack = <<>>
    \/ /\ model.state = StateFileBrowser /\ model'.state = StateQueueView
       /\ BrowserQueue
       /\ Len(items') > 0
    \/ /\ model.state = StateQueueView /\ model'.state = StateFileBrowser
       /\ QueueViewEscape
    \/ /\ model.state = StateQueueView /\ model'.state = StateTransferView
       /\ KeyStart
       /\ Len(items) > 0
    \/ /\ model.state = StateTransferView /\ model'.state = StateFileBrowser
       /\ KeyEnterDone
       /\ \A id \in DOMAIN transfers :
             heap[transfers[id]].Status \in {StatusCompleted, StatusFailed}

C22_Step == model'.state # model.state => C22_Edge

C22_ScreenEdges ==
    /\ UInit => model.state = StateRemoteSelect
    /\ [][C22_Step]_vars

\* a batch was started from the queue view and, all done, confirmed: the
\* file browser again, after a tick and a window size
C22_Witness ==
    /\ model.state = StateFileBrowser
    /\ hist.batch # <<>>
    /\ model.transferMgr = Nil
    /\ timer = "none"
    /\ ui.width # 0

(***************************************************************************)
(* C23: the start action in the QueueView with a queue of n >= 1 items     *)
(* leaves a new manager with exactly n transfers, all Pending, transfer i  *)
(* with the source remote:path and the size of queue item i, while the     *)
(* goroutine has not run yet; and the item runTransfers runs under         *)
(* transfer ID i is the queue item that was registered under ID i.         *)
(***************************************************************************)
C23_Registered ==
    LET n == Len(items) IN
    /\ n >= 1
    /\ model.transferMgr = Nil /\ model'.transferMgr # Nil
    /\ DOMAIN transfers' = {TransferID(i) : i \in 0..(n - 1)}
    /\ \A i, j \in 0..(n - 1) :
          i # j => transfers'[TransferID(i)] # transfers'[TransferID(j)]
    /\ \A i \in 0..(n - 1) :
          heap'[transfers'[TransferID(i)]] =
              NewTransfer(TransferID(i),
                          items[i + 1].Remote \o ":" \o items[i + 1].Path, ".",
                          items[i + 1].Size)
    /\ \A i \in 0..(n - 1) :
          /\ heap'[transfers'[TransferID(i)]].Status = StatusPending
          /\ heap'[transfers'[TransferID(i)]].BytesTotal = items[i + 1].Size
    /\ orch'.pc = "spawned"

\* runTransfers is inside CopyFile for the item at its index
Running == orch.pc \notin {"none", "spawned", "loop", "done"}

C23_SameItem ==
    Running =>
        /\ orch.i < Len(orch.items)
        /\ orch.items[orch.i + 1] = hist.batch[orch.i + 1]
        /\ CurID \in DOMAIN transfers
        /\ heap[transfers[CurID]].Source =
               orch.items[orch.i + 1].Remote \o ":" \o orch.items[orch.i + 1].Path

C23_StartRegisters ==
    /\ [][KeyStart => C23_Registered]_vars
    /\ [](C23_SameItem)

\* the third item of a batch of three is running, the first two are done
C23_Witness ==
    /\ Len(hist.batch) = 3
    /\ Running
    /\ orch.i = 2
    /\ heap[transfers[CurID]].Status = StatusInProgress

(***************************************************************************)
(* C24: the queue action in the FileBrowser adds to the Queue every item   *)
(* of the listing whose selection flag is set, the ones the filter hides   *)
(* included and the pairs already queued skipped; it leaves no item of the *)
(* listing flagged; and it moves to the QueueView if and only if the queue *)
(* is non-empty after the additions.                                       *)
(***************************************************************************)
Flagged(u) == {k \in 1..Len(u.files) : u.files[k].Selected}

C24_Step ==
    BrowserQueue =>
        /\ \A k \in Flagged(ui) :
              Contains(items', ui.currentRemote, ui.files[k].Path)
        /\ Len(items') >= Len(items)
        /\ SubSeq(items', 1, Len(items)) = items
        /\ \A j \in (Len(items) + 1)..Len(items') :
              /\ ~Contains(items, items'[j].Remote, items'[j].Path)
              /\ \E k \in Flagged(ui) :
                    items'[j] = NewItem(ui.currentRemote, FileItemOf(ui.files[k]))
        /\ \A j, k \in 1..Len(items') :
              j # k => Pair(items'[j]) # Pair(items'[k])
        /\ Len(ui'.files) = Len(ui.files)
        /\ Flagged(ui') = {}
        /\ model'.state = IF Len(items') > 0 THEN StateQueueView ELSE model.state

C24_QueueAction == [][C24_Step]_vars

\* the queue view, reached with the filter on and the directory it hides
\* queued behind the file that was queued before
C24_Witness ==
    /\ model.state = StateQueueView
    /\ ui.filterText = "A"
    /\ Len(items) = 2
    /\ items[1].Path = "a"
    /\ items[2].Path = "d"
    /\ Flagged(ui) = {}
    /\ Len(ui.files) = 2

(***************************************************************************)
(* C25: select-all is a binary toggle over the items the filter shows: if  *)
(* every visible item is selected before the action, no visible item is    *)
(* selected after it; otherwise every visible item is selected after it;   *)
(* the flags of the items the filter hides are unchanged.                  *)
(***************************************************************************)
Visible(u) ==
    {k \in 1..Len(u.files) : ContainsIgnoreCase(u.files[k].Name, u.filterText)}

C25_Step ==
    BrowserSelectAll =>
        /\ Len(ui'.files) = Len(ui.files)
        /\ IF \A k \in Visible(ui) : ui.files[k].Selected
           THEN \A k \in Visible(ui) : ~ui'.files[k].Selected
           ELSE \A k \in Visible(ui) : ui'.files[k].Selected
        /\ \A k \in 1..Len(ui.files) \ Visible(ui) :
              ui'.files[k].Selected = ui.files[k].Selected

C25_SelectAllToggle == [][C25_Step]_vars

\* the same for the listings whose entries have different paths
DistinctPaths(u) ==
    \A j, k \in 1..Len(u.files) : j # k => u.files[j].Path # u.files[k].Path

C25_ToggleOnDistinctPaths == [][DistinctPaths(ui) => C25_Step]_vars

(***************************************************************************)
(* C26: in the QueueView, after any sequence of move-up, move-down and     *)
(* remove the selection index is within the queue: 0 <= index < length     *)
(* when the queue is non-empty, 0 when it is empty; and remove deletes     *)
(* exactly the item at the selection index.                                *)
(***************************************************************************)
C26_InBounds ==
    model.state = StateQueueView =>
        IF Len(items) > 0
        THEN ui.selectedIndex >= 0 /\ ui.selectedIndex < Len(items)
        ELSE ui.selectedIndex = 0

C26_RemoveStep ==
    (QueueViewRemove /\ Len(items) > 0) =>
        /\ Len(items') = Len(items) - 1
        /\ \A j \in 1..Len(items') :
              items'[j] = IF j <= ui.selectedIndex THEN items[j] ELSE items[j + 1]

C26_SelectionInBounds ==
    /\ [](C26_InBounds)
    /\ [][C26_RemoveStep]_vars

\* the queue view with every item removed again
C26_Witness ==
    /\ model.state = StateQueueView
    /\ ui.currentRemote # ""
    /\ items = <<>>
    /\ qcap >= 2
    /\ ui.selectedIndex = 0

(***************************************************************************)
(* C27: UpdateProgress overwrites an entry's total bytes only when the new *)
(* total is positive, and always writes the bytes copied and the           *)
(* percentage: after an update the total is the update's when that is > 0  *)
(* and the entry's previous one otherwise; Add sets the total it is given; *)
(* no other call changes the total or the bytes copied. So after any       *)
(* sequence of updates the total is the most recent positive one, or the   *)
(* one given at Add.                                                       *)
(***************************************************************************)
C27_TotalKept ==
    /\ (mcall.op = "UpdateProgress" /\ mcall.id \in DOMAIN mprev.transfers) =>
          LET old == mprev.heap[mprev.transfers[mcall.id]]
              new == heap[transfers[mcall.id]]
          IN /\ new.BytesTotal = IF mcall.bytesTotal > 0 THEN mcall.bytesTotal
                                  ELSE old.BytesTotal
             /\ new.BytesCopied = mcall.bytesCopied
             /\ new.Progress = mcall.progress
    /\ mcall.op = "Add" =>
          heap[transfers[mcall.id]].BytesTotal = mcall.totalBytes
    /\ mcall.op \in {"Start", "Complete", "Fail", "Stats"} =>
          /\ DOMAIN transfers = DOMAIN mprev.transfers
          /\ \A id \in DOMAIN transfers :
                /\ heap[transfers[id]].BytesTotal =
                       mprev.heap[mprev.transfers[id]].BytesTotal
                /\ heap[transfers[id]].BytesCopied =
                       mprev.heap[mprev.transfers[id]].BytesCopied

\* an update without a total arrived after one with the total 2, for an entry
\* added with the total 1: the total stays 2
C27_Witness ==
    /\ mcall.op = "UpdateProgress"
    /\ mcall.bytesTotal = 0
    /\ mcall.id \in DOMAIN mprev.transfers
    /\ mprev.heap[mprev.transfers[mcall.id]].BytesTotal = 2
    /\ heap[transfers[mcall.id]].BytesTotal = 2
    /\ heap[transfers[mcall.id]].BytesCopied = 1

(***************************************************************************)
(* C28: a tick received in the TransferView is re-issued while a transfer  *)
(* is Pending or InProgress; a tick received when no transfer is Pending   *)
(* or InProgress, or on another screen, is not re-issued.                  *)
(***************************************************************************)
C28_Step ==
    Tick => (timer' = "armed" <=> (model.state = StateTransferView /\ SomeActive))

C28_TickWhileActive == [][C28_Step]_vars

\* the two parts of it that do not depend on the batch being finished
C28_PartsStep ==
    /\ (Tick /\ model.state = StateTransferView /\ SomeActive) => timer' = "armed"
    /\ (Tick /\ model.state # StateTransferView) => timer' = "none"

C28_TickParts == [][C28_PartsStep]_vars

(***************************************************************************)
(* C29: a duplicate add on the TransferManager is a no-op: Add with an ID  *)
(* that is registered already leaves the existing entry (status, progress, *)
(* byte counts, times, error) as it was.                                   *)
(***************************************************************************)
C29_DuplicateAddNoOp ==
    (mcall.op = "Add" /\ mcall.id \in DOMAIN mprev.transfers) =>
        /\ DOMAIN transfers = DOMAIN mprev.transfers
        /\ heap[transfers[mcall.id]] = mprev.heap[mprev.transfers[mcall.id]]

\* what a duplicate add does leave alone: the other entries
C29_OthersKept ==
    (mcall.op = "Add" /\ mcall.id \in DOMAIN mprev.transfers) =>
        /\ DOMAIN transfers = DOMAIN mprev.transfers
        /\ \A id \in DOMAIN transfers \ {mcall.id} :
              heap[transfers[id]] = mprev.heap[mprev.transfers[id]]
\* the locks caller t holds
EntriesOf(t) == {s \in Slots : entryLock[s] = t}

HoldsEntry(t) == EntriesOf(t) # {}

HoldsRegistry(t) == regLock.w = t \/ t \in regLock.r

\* caller t takes the registry lock in this step, for writing or for reading
TakesRegistry(t) ==
    \/ regLock.w # t /\ regLock'.w = t
    \/ t \notin regLock.r /\ t \in regLock'.r

\* the entry locks caller t is at a t.mu.Lock() for: the one of the entry it
\* looked up in Start, Complete, Fail and UpdateProgress, and in Stats the one
\* of whichever entry the range loop yields next
WaitsFor(t) ==
    CASE pc[t] = "wlocked" /\ Exists(transfers, call[t].id) ->
            {Lookup(transfers, call[t].id)}
      [] pc[t] = "ulooked" -> {call[t].t}
      [] pc[t] = "scan" -> {transfers[id] : id \in call[t].todo}
      [] OTHER -> {}

\* caller t has a step to take
Runs(t) == ENABLED CallerStep(t)

\* the lock operations and returns caller t still has before it, at most
Rank(t) ==
    CASE pc[t] = "idle" -> 0
      [] pc[t] \in {"addLocked", "wentry", "uentry", "viewEntry", "get"} -> 1
      [] pc[t] \in {"wlocked", "ulooked", "getall"} -> 2
      [] pc[t] = "rlocked" -> 3
      [] pc[t] = "scan" -> 2 * Cardinality(call[t].todo) + 1
      [] pc[t] = "scanEntry" -> 2 * Cardinality(call[t].todo)

\* a caller takes the registry lock as the first thing of its call and with no
\* entry lock in its hands, and every step of a call brings its return nearer
C30_OrderStep ==
    \A t \in Threads :
        /\ TakesRegistry(t) => pc[t] = "idle" /\ ~HoldsEntry(t)
        /\ pc[t] # "idle" /\ pc'[t] # pc[t] => Rank(t)' < Rank(t)

\* a caller that is about to take the registry lock, and so may have to wait
\* for it, holds no lock at all, and no caller holds two entry locks
C30_WaitsEmptyHanded ==
    \A t \in Threads :
        /\ pc[t] = "idle" => ~HoldsEntry(t) /\ ~HoldsRegistry(t)
        /\ Cardinality(EntriesOf(t)) <= 1

\* a caller inside a call waits for nothing but an entry lock, and whoever
\* holds that lock is another caller who waits for nothing
C30_NoWaitCycle ==
    \A t \in Threads :
        pc[t] # "idle" /\ ~panicked =>
            /\ (\A s \in WaitsFor(t) : entryLock[s] = None) => Runs(t)
            /\ \A s \in WaitsFor(t) :
                  entryLock[s] # None =>
                      /\ entryLock[s] # t
                      /\ WaitsFor(entryLock[s]) = {}
                      /\ Runs(entryLock[s])

\* C30: concurrent calls of Add, Start, UpdateProgress, Complete, Fail, Get,
\* GetAll and Stats cannot deadlock: whoever a call waits for can go on and
\* every step brings a call nearer to its return, the registry lock is taken
\* before an entry lock, and no call holds an entry lock while it waits for
\* the registry lock.
C30_NoDeadlock ==
    /\ [](C30_WaitsEmptyHanded /\ C30_NoWaitCycle)
    /\ [][C30_OrderStep]_vars

\* Start, Complete or Fail holds the registry lock and waits for the entry
\* lock that UpdateProgress holds
C30_Witness ==
    \E t \in Writers, u \in Progressers :
        /\ pc[t] = "wlocked"
        /\ pc[u] = "uentry"
        /\ HoldsRegistry(t)
        /\ WaitsFor(t) # {}
        /\ \A s \in WaitsFor(t) : entryLock[s] = u

\* the Transfer registered under id
Entry(id) == heap[transfers[id]]

\* an entry that is Completed or Failed is not written again: no progress
\* update, and no other write either, reaches it
C31_Step ==
    \A id \in DOMAIN transfers :
        Entry(id).Status \in Terminal =>
            /\ id \in DOMAIN transfers'
            /\ Entry(id)' = Entry(id)

\* a Completed transfer shows 100 percent
C31_CompletedAt100 ==
    \A id \in DOMAIN transfers :
        Entry(id).Status = StatusCompleted => Entry(id).Progress = 100

\* the parser goroutine of a transfer is over when its terminal status is set
C31_ParserOver ==
    \A id \in DOMAIN transfers :
        Entry(id).Status \in Terminal /\ cmd.parser = "running" => id # CurID

\* C31: within a batch no progress update is applied to a transfer after it
\* was marked Completed or Failed, CopyFile waiting for the parser before it
\* sets the terminal status; every Completed transfer has progress 100 from
\* then on.
C31_NoUpdateAfterTerminal ==
    /\ [](C31_CompletedAt100 /\ C31_ParserOver)
    /\ [][C31_Step]_vars

\* the first transfer is Completed after a progress line of 75 percent was
\* applied to it, and the parser of the second transfer has a line to apply
C31_Witness ==
    /\ TransferID(0) \in DOMAIN transfers
    /\ Entry(TransferID(0)).Status = StatusCompleted
    /\ Entry(TransferID(0)).BytesCopied = 2
    /\ Entry(TransferID(0)).Progress = 100
    /\ orch.i = 1
    /\ cmd.parser = "running"
    /\ cmd.pipe # <<>>
    /\ Head(cmd.pipe).match

\* the listing the browser displays: its files without their selection marks
Shown(u) == [i \in 1..Len(u.files) |-> FileItemOf(u.files[i])]

\* no loadFiles command is in flight
NoLoadOutstanding == \A c \in msgs : c.type # "files"

\* the delivery after which no load is outstanding replaces the listing and
\* shows no error
C32_LastDelivery ==
    /\ ~NoLoadOutstanding
    /\ NoLoadOutstanding'
    /\ ui'.err = Nil
    /\ Shown(ui)' # Shown(ui)

\* C32: a directory-listing result is applied only to the directory it was
\* requested for: with several loads outstanding and their results delivered
\* in any order, the listing displayed once no load is outstanding is the
\* listing of the current remote and the current path.
C32_ListingOfCurrentDirectory ==
    [][C32_LastDelivery =>
          Shown(ui)' = ListFiles(ui'.currentRemote, ui'.currentPath)]_vars

\* the same of every delivery: a listing that replaces the displayed one is
\* the listing of the directory the browser is at
C32_AppliedToRequested ==
    [][Shown(ui)' # Shown(ui) =>
          Shown(ui)' = ListFiles(ui'.currentRemote, ui'.currentPath)]_vars

\* the one result that is outstanding, requested for the directory the
\* browser is still at, shows the listing of that directory
C32_OneLoadAtATime ==
    [][C32_LastDelivery /\ Cardinality(msgs) = 1
           /\ (\A c \in msgs : c.remote = ui.currentRemote /\ c.path = ui.currentPath)
       => Shown(ui)' = ListFiles(ui'.currentRemote, ui'.currentPath)]_vars

====
